---- MODULE Spec2Model ----
(***************************************************************************)
(* Model of the InfluxDB v2 output of k6 (pkg/influxdb).                   *)
(*                                                                         *)
(*   Spec            the running output: producers calling                 *)
(*                   AddMetricSamples, the periodic flusher driving        *)
(*                   flushMetrics, the writer goroutines and Stop.         *)
(*   SpecNew         the constructor New over bounded parameters           *)
(*                   (GetConsolidatedConfig, parseURL, makeFieldKinds).    *)
(*   SpecFieldKinds  makeFieldKinds over bounded directive lists.          *)
(*   SpecExtract     extractTagsToValues over bounded tag maps and tables. *)
(*   SpecBatch       batchFromSamples, sample by sample, with its cache.   *)
(*   SpecConfig      GetConsolidatedConfig over layered configurations,    *)
(*                   called twice as the process environment changes.      *)
(*   SpecURL         parseURL over URL texts built from their parts.       *)
(*   SpecLive        Spec under the fairness of the goroutines' steps.     *)
(*   SpecCycles      SpecBatch with batchFromSamples called again on the   *)
(*                   same TagSet instances.                                *)
(*                                                                         *)
(* Strings the code inspects character by character (URL argument,         *)
(* tags-as-fields directives, numeric options) are sequences of            *)
(* one-character strings.                                                  *)
(***************************************************************************)
EXTENDS Integers, Sequences, FiniteSets, TLC

\* ------------------------------------------------------------------ bounds
\* number of producer contexts calling AddMetricSamples
NumProducers == 2
\* number of AddMetricSamples calls in one run
MaxCalls == 3
\* largest ConcurrentWrites of a constructed output in the lifecycle model
MaxConcurrentWrites == 2

VARIABLES
    started,        \* Start has created the periodic flusher
    semaphoreCap,   \* cap(o.semaphoreCh)
    semaphoreCh,    \* len(o.semaphoreCh): permits held
    wg,             \* counter of o.wg
    clientClosed,   \* number of o.client.Close() calls
    buffer,         \* SampleBuffer.buffer: sequence of sample containers
    bufLock,        \* holder of the SampleBuffer mutex
    prodPc,         \* per producer: position inside AddMetricSamples
    prodCall,       \* per producer: the call it is executing
    calls,          \* history: one record per AddMetricSamples call
    flPc,           \* position of the periodic flusher goroutine
    flFinal,        \* the flush in progress is the one of the stop case
    flSamples,      \* local `samples` of the flushMetrics in progress
    flFinals,       \* flushes run from the stop case so far
    stopSignal,     \* pf.stop is closed
    writers,        \* one record per spawned writer goroutine
    stopPc,         \* position of the caller of Stop
    stopErr,        \* value returned by Stop
    params,         \* output.Params handed to New
    newOut,         \* what New returned
    tagsAsFields,   \* conf.TagsAsFields handed to makeFieldKinds
    fieldKindsOut,  \* what makeFieldKinds returned
    extraction,     \* one call of extractTagsToValues: arguments and maps
    batchIn,        \* one call of batchFromSamples: o.fieldKinds, the TagSets, containers
    batch,          \* one call of batchFromSamples: loop position, cache, points
    consolidated,   \* what GetConsolidatedConfig returned
    parsedURL       \* one call of parseURL: the text and what it returned

lifeVars == <<started, semaphoreCap, semaphoreCh, wg, clientClosed, buffer,
              bufLock, prodPc, prodCall, calls, flPc, flFinal, flSamples,
              flFinals, stopSignal, writers, stopPc, stopErr>>

\* the variables of the constructor and of makeFieldKinds
ctorVars == <<params, newOut, tagsAsFields, fieldKindsOut>>

\* the variables of the functions checked on their own
fnVars == <<extraction, batchIn, batch, consolidated, parsedURL>>

pureVars == <<ctorVars, fnVars>>

vars == <<lifeVars, pureVars>>

\* ----------------------------------------------------------------- helpers
Producers == 1..NumProducers

Free == <<"free">>
HeldBy(p) == <<"producer", p>>
HeldByFlusher == <<"flusher">>

RECURSIVE SumSeq(_)
SumSeq(s) == IF s = <<>> THEN 0 ELSE Head(s) + SumSeq(Tail(s))

RECURSIVE Flatten(_)
Flatten(ss) == IF ss = <<>> THEN <<>> ELSE Head(ss) \o Flatten(Tail(ss))

\* The containers passed by call c: container j holds sizes[j] samples; a
\* sample is identified by <<call, index within the call>>.
Containers(c, sizes) ==
    [j \in 1..Len(sizes) |->
        [k \in 1..sizes[j] |-> <<c, SumSeq(SubSeq(sizes, 1, j - 1)) + k>>]]

\* Shapes of the argument of AddMetricSamples: sizes of its containers.  A
\* container may hold no sample at all.
CallShapes == { <<1, 2>>, <<0>> }

\* The producers pass a sample-less argument at most once in a run.
ShapeAllowed(sizes) ==
    SumSeq(sizes) = 0 =>
        \A c \in 1..Len(calls) : Flatten(calls[c].containers) # <<>>

\* batchFromSamples: one point per sample, container order then sample order.
batchFromSamples(containers) == Flatten(containers)

\* ------------------------------------------------------------ text helpers
\* Text is a sequence of one-character strings.
Letters == { "a", "b", "c", "d", "e", "f", "g", "h", "i", "j", "k", "l", "m",
             "n", "o", "p", "q", "r", "s", "t", "u", "v", "w", "x", "y", "z",
             "B", "H", "I", "P", "T" }
Digits == { "0", "1", "2", "3", "4", "5", "6", "7", "8", "9" }
DigitValue(c) ==
    CASE c = "0" -> 0 [] c = "1" -> 1 [] c = "2" -> 2 [] c = "3" -> 3
      [] c = "4" -> 4 [] c = "5" -> 5 [] c = "6" -> 6 [] c = "7" -> 7
      [] c = "8" -> 8 [] c = "9" -> 9

\* strings.ToLower on the letters of the alphabet.
ToLowerChar(c) ==
    CASE c = "B" -> "b" [] c = "H" -> "h" [] c = "I" -> "i" [] c = "P" -> "p"
      [] c = "T" -> "t" [] c = "N" -> "n" [] c = "F" -> "f" [] c = "A" -> "a"
      [] c = "Y" -> "y" [] OTHER -> c
ToLower(s) == [i \in 1..Len(s) |-> ToLowerChar(s[i])]

\* strings.Index for a one-character separator: 0 when absent.
RECURSIVE IndexFrom(_, _, _)
IndexFrom(s, c, i) ==
    IF i > Len(s) THEN 0 ELSE IF s[i] = c THEN i ELSE IndexFrom(s, c, i + 1)
Index(s, c) == IndexFrom(s, c, 1)
RECURSIVE LastIndexFrom(_, _, _)
LastIndexFrom(s, c, i) ==
    IF i < 1 THEN 0 ELSE IF s[i] = c THEN i ELSE LastIndexFrom(s, c, i - 1)
LastIndex(s, c) == LastIndexFrom(s, c, Len(s))
HasPrefix(s, pre) == Len(s) >= Len(pre) /\ SubSeq(s, 1, Len(pre)) = pre
TrimPrefix(s, pre) == IF HasPrefix(s, pre) THEN SubSeq(s, Len(pre) + 1, Len(s)) ELSE s
From(s, i) == SubSeq(s, i, Len(s))

\* strings.SplitN(s, ":", 2)
SplitN2(s) ==
    IF Index(s, ":") = 0 THEN <<s>>
    ELSE <<SubSeq(s, 1, Index(s, ":") - 1), From(s, Index(s, ":") + 1)>>

\* strconv.ParseInt(s, 10, 64) on texts short enough not to overflow.
RECURSIVE ParseDigits(_, _)
ParseDigits(s, acc) ==
    IF s = <<>> THEN [ok |-> TRUE, n |-> acc]
    ELSE IF Head(s) \in Digits
         THEN ParseDigits(Tail(s), 10 * acc + DigitValue(Head(s)))
         ELSE [ok |-> FALSE, n |-> 0]
ParseInt(s) ==
    IF s = <<>> THEN [ok |-> FALSE, n |-> 0]
    ELSE IF Head(s) \in { "+", "-" }
         THEN IF Tail(s) = <<>> THEN [ok |-> FALSE, n |-> 0]
              ELSE LET r == ParseDigits(Tail(s), 0)
                   IN  IF Head(s) = "-" THEN [ok |-> r.ok, n |-> 0 - r.n] ELSE r
         ELSE ParseDigits(s, 0)

\* ------------------------------------------------------------------ errors
NilError == [msg |-> "nil", args |-> <<>>]
Errorf(msg, args) == [msg |-> msg, args |-> args]

\* ----------------------------------------------------------------- strconv
\* A Go value held in a map[string]interface{}: its dynamic type and its value
\* written in canonical text (bool: true or false; int64: base 10 without
\* sign "+" or leading zeros; float64: shortest decimal).
GoString(s) == [t |-> "string", v |-> s]
GoBool(b) == [t |-> "bool", v |-> IF b THEN <<"t", "r", "u", "e">> ELSE <<"f", "a", "l", "s", "e">>]
GoInt64(text) == [t |-> "int64", v |-> text]
GoFloat64(text) == [t |-> "float64", v |-> text]
SyntaxError == Errorf("invalid syntax", <<>>)
RangeError == Errorf("value out of range", <<>>)

\* strconv.ParseBool
ParseBool(str) ==
    IF str \in { <<"1">>, <<"t">>, <<"T">>, <<"T", "R", "U", "E">>, <<"t", "r", "u", "e">>, <<"T", "r", "u", "e">> }
    THEN [v |-> GoBool(TRUE), err |-> NilError]
    ELSE IF str \in { <<"0">>, <<"f">>, <<"F">>, <<"F", "A", "L", "S", "E">>, <<"f", "a", "l", "s", "e">>, <<"F", "a", "l", "s", "e">> }
    THEN [v |-> GoBool(FALSE), err |-> NilError]
    ELSE [v |-> GoBool(FALSE), err |-> SyntaxError]

AllDigits(s) == \A i \in 1..Len(s) : s[i] \in Digits
RECURSIVE TrimLeadingZeros(_)
TrimLeadingZeros(s) ==
    IF Len(s) > 1 /\ Head(s) = "0" THEN TrimLeadingZeros(Tail(s)) ELSE s
RECURSIVE TrimTrailingZeros(_)
TrimTrailingZeros(s) ==
    IF s # <<>> /\ s[Len(s)] = "0"
    THEN TrimTrailingZeros(SubSeq(s, 1, Len(s) - 1)) ELSE s
\* a <= b for digit texts without leading zeros
RECURSIVE DigitsLeqSameLen(_, _)
DigitsLeqSameLen(a, b) ==
    IF a = <<>> THEN TRUE
    ELSE IF DigitValue(Head(a)) # DigitValue(Head(b))
         THEN DigitValue(Head(a)) < DigitValue(Head(b))
         ELSE DigitsLeqSameLen(Tail(a), Tail(b))
DigitsLeq(a, b) == Len(a) < Len(b) \/ (Len(a) = Len(b) /\ DigitsLeqSameLen(a, b))
MaxInt64 == <<"9", "2", "2", "3", "3", "7", "2", "0", "3", "6", "8", "5", "4", "7", "7", "5", "8", "0", "7">>
MinInt64Magnitude == <<"9", "2", "2", "3", "3", "7", "2", "0", "3", "6", "8", "5", "4", "7", "7", "5", "8", "0", "8">>

\* strconv.ParseInt(str, 10, 64): optional sign, decimal digits, the int64
\* range; the value is kept as text because it does not fit a model integer.
ParseInt64(str) ==
    LET signed == str # <<>> /\ Head(str) \in { "+", "-" }
        neg == signed /\ Head(str) = "-"
        digits == IF signed THEN Tail(str) ELSE str
        magnitude == TrimLeadingZeros(digits)
    IN  IF digits = <<>> \/ ~AllDigits(digits)
        THEN [v |-> GoInt64(<<"0">>), err |-> SyntaxError]
        ELSE IF ~DigitsLeq(magnitude, IF neg THEN MinInt64Magnitude ELSE MaxInt64)
        THEN [v |-> GoInt64(IF neg THEN <<"-">> \o MinInt64Magnitude ELSE MaxInt64),
              err |-> RangeError]
        ELSE [v |-> GoInt64(IF neg /\ magnitude # <<"0">> THEN <<"-">> \o magnitude
                            ELSE magnitude),
              err |-> NilError]

\* strconv.ParseFloat(str, 64) on decimal texts without exponent and on the
\* names of the infinities and of NaN; texts of at most 15 significant digits
\* (and powers of two) are float64 values exactly.
ParseFloat(str) ==
    LET signed == str # <<>> /\ Head(str) \in { "+", "-" }
        neg == signed /\ Head(str) = "-"
        body == IF signed THEN Tail(str) ELSE str
        dot == Index(body, ".")
        whole == IF dot = 0 THEN body ELSE SubSeq(body, 1, dot - 1)
        frac == IF dot = 0 THEN <<>> ELSE From(body, dot + 1)
        wholeText == TrimLeadingZeros(IF whole = <<>> THEN <<"0">> ELSE whole)
        fracText == TrimTrailingZeros(frac)
        text == (IF neg THEN <<"-">> ELSE <<>>) \o wholeText
                \o (IF fracText = <<>> THEN <<>> ELSE <<".">> \o fracText)
    IN  IF ToLower(body) \in { <<"i", "n", "f">>, <<"i", "n", "f", "i", "n", "i", "t", "y">> }
        THEN [v |-> GoFloat64(IF neg THEN <<"-", "I", "n", "f">> ELSE <<"+", "I", "n", "f">>), err |-> NilError]
        ELSE IF ToLower(str) = <<"n", "a", "n">>
        THEN [v |-> GoFloat64(<<"N", "a", "N">>), err |-> NilError]
        ELSE IF AllDigits(whole) /\ AllDigits(frac) /\ Len(whole) + Len(frac) > 0
        THEN [v |-> GoFloat64(text), err |-> NilError]
        ELSE [v |-> GoFloat64(<<"0">>), err |-> SyntaxError]


\* ------------------------------------------------------------------ Config
NewString(s, valid) == [String |-> s, Valid |-> valid]
StringFrom(s) == NewString(s, TRUE)
NewInt(n, valid) == [Int64 |-> n, Valid |-> valid]
IntFrom(n) == NewInt(n, TRUE)
NewBool(b, valid) == [Bool |-> b, Valid |-> valid]
NewNullDuration(d, valid) == [Duration |-> d, Valid |-> valid]

\* Config{}
ZeroConfig ==
    [Addr |-> NewString(<<>>, FALSE),
     Organization |-> NewString(<<>>, FALSE),
     Bucket |-> NewString(<<>>, FALSE),
     Token |-> NewString(<<>>, FALSE),
     InsecureSkipTLSVerify |-> NewBool(FALSE, FALSE),
     PushInterval |-> NewNullDuration(0, FALSE),
     ConcurrentWrites |-> NewInt(0, FALSE),
     Precision |-> NewNullDuration(0, FALSE),
     TagsAsFields |-> <<>>,
     EnableUniqueTag |-> NewBool(FALSE, FALSE),
     UniqueTagName |-> NewString(<<>>, FALSE)]

\* NewConfig(): durations are in nanoseconds.
NewConfig ==
    [ZeroConfig EXCEPT
        !.Addr = NewString(<<"h", "t", "t", "p", ":", "/", "/", "l", "o", "c", "a", "l", "h", "o", "s", "t", ":", "8", "0", "8", "6">>, FALSE),
        !.TagsAsFields = <<<<"v", "u", ":", "i", "n", "t">>, <<"i", "t", "e", "r", ":", "i", "n", "t">>, <<"u", "r", "l">>>>,
        !.ConcurrentWrites = NewInt(4, FALSE),
        !.PushInterval = NewNullDuration(1000000000, FALSE),
        !.EnableUniqueTag = NewBool(FALSE, FALSE),
        !.UniqueTagName = NewString(<<"u", "n", "i", "q", "u", "e", "I", "d">>, FALSE)]

\* Config.Apply
Apply(c, cfg) ==
    [Addr |-> IF cfg.Addr.Valid THEN cfg.Addr ELSE c.Addr,
     Organization |-> IF cfg.Organization.Valid THEN cfg.Organization ELSE c.Organization,
     Bucket |-> IF cfg.Bucket.Valid THEN cfg.Bucket ELSE c.Bucket,
     Token |-> IF cfg.Token.Valid THEN cfg.Token ELSE c.Token,
     InsecureSkipTLSVerify |-> IF cfg.InsecureSkipTLSVerify.Valid
                               THEN cfg.InsecureSkipTLSVerify
                               ELSE c.InsecureSkipTLSVerify,
     TagsAsFields |-> IF Len(cfg.TagsAsFields) > 0 THEN cfg.TagsAsFields ELSE c.TagsAsFields,
     PushInterval |-> IF cfg.PushInterval.Valid THEN cfg.PushInterval ELSE c.PushInterval,
     ConcurrentWrites |-> IF cfg.ConcurrentWrites.Valid
                          THEN cfg.ConcurrentWrites ELSE c.ConcurrentWrites,
     Precision |-> IF cfg.Precision.Valid THEN cfg.Precision ELSE c.Precision,
     EnableUniqueTag |-> IF cfg.EnableUniqueTag.Valid
                         THEN cfg.EnableUniqueTag ELSE c.EnableUniqueTag,
     UniqueTagName |-> IF cfg.UniqueTagName.Valid
                       THEN cfg.UniqueTagName ELSE c.UniqueTagName]

\* --------------------------------------------------------------- parseJSON
\* A JSON document is a record of its members; a member is a JSON string, a
\* JSON number (its literal text) or an array of strings.  The documents of
\* the model carry the members addr, bucket, token, concurrentWrites,
\* tagsAsFields.
Absent == [t |-> "absent", v |-> <<>>]
JSONString(x) == [t |-> "string", v |-> x]
JSONNumber(x) == [t |-> "number", v |-> x]
JSONArray(x) == [t |-> "array", v |-> x]

\* null.String from a JSON member: a string sets it, anything else fails.
UnmarshalString(m) ==
    IF m.t = "absent" THEN [val |-> NewString(<<>>, FALSE), ok |-> TRUE]
    ELSE IF m.t = "string" THEN [val |-> StringFrom(m.v), ok |-> TRUE]
    ELSE [val |-> NewString(<<>>, FALSE), ok |-> FALSE]

\* null.Int from a JSON member: a number, or a string holding one; the empty
\* string leaves it unset.
UnmarshalInt(m) ==
    IF m.t = "absent" THEN [val |-> NewInt(0, FALSE), ok |-> TRUE]
    ELSE IF m.t = "string" /\ m.v = <<>> THEN [val |-> NewInt(0, FALSE), ok |-> TRUE]
    ELSE IF m.t \in { "string", "number" }
         THEN IF ParseInt(m.v).ok
              THEN [val |-> IntFrom(ParseInt(m.v).n), ok |-> TRUE]
              ELSE [val |-> NewInt(0, FALSE), ok |-> FALSE]
         ELSE [val |-> NewInt(0, FALSE), ok |-> FALSE]

\* []string from a JSON member.
UnmarshalStrings(m) ==
    IF m.t = "absent" THEN [val |-> <<>>, ok |-> TRUE]
    ELSE IF m.t = "array" THEN [val |-> m.v, ok |-> TRUE]
    ELSE [val |-> <<>>, ok |-> FALSE]

parseJSON(data) ==
    LET addr == UnmarshalString(data.addr)
        bucket == UnmarshalString(data.bucket)
        token == UnmarshalString(data.token)
        writes == UnmarshalInt(data.concurrentWrites)
        tags == UnmarshalStrings(data.tagsAsFields)
    IN  [conf |-> [ZeroConfig EXCEPT !.Addr = addr.val,
                                     !.Bucket = bucket.val,
                                     !.Token = token.val,
                                     !.ConcurrentWrites = writes.val,
                                     !.TagsAsFields = tags.val],
         err |-> IF addr.ok /\ bucket.ok /\ token.ok /\ writes.ok /\ tags.ok
                 THEN NilError
                 ELSE Errorf("json: cannot unmarshal", <<>>)]

\* ---------------------------------------------------------------- parseURL
\* url.Parse on texts without '?', '#', '%', '@' and '['.
RECURSIVE getSchemeFrom(_, _)
getSchemeFrom(rawURL, i) ==
    IF i > Len(rawURL)
    THEN [scheme |-> <<>>, rest |-> rawURL, err |-> NilError]
    ELSE IF rawURL[i] \in Letters THEN getSchemeFrom(rawURL, i + 1)
    ELSE IF rawURL[i] \in Digits \cup { "+", "-", "." }
         THEN IF i = 1
              THEN [scheme |-> <<>>, rest |-> rawURL, err |-> NilError]
              ELSE getSchemeFrom(rawURL, i + 1)
    ELSE IF rawURL[i] = ":"
         THEN IF i = 1
              THEN [scheme |-> <<>>, rest |-> <<>>,
                    err |-> Errorf("missing protocol scheme", <<>>)]
              ELSE [scheme |-> SubSeq(rawURL, 1, i - 1),
                    rest |-> From(rawURL, i + 1), err |-> NilError]
    ELSE [scheme |-> <<>>, rest |-> rawURL, err |-> NilError]
getScheme(rawURL) == getSchemeFrom(rawURL, 1)

\* validOptionalPort: "" or ":" followed by digits only.
validOptionalPort(port) ==
    port = <<>> \/ (Head(port) = ":" /\ \A i \in 2..Len(port) : port[i] \in Digits)

\* parseAuthority / parseHost without userinfo and IP literals.
parseHost(host) ==
    IF LastIndex(host, ":") # 0 /\ ~validOptionalPort(From(host, LastIndex(host, ":")))
    THEN [host |-> <<>>, err |-> Errorf("invalid port after host", <<>>)]
    ELSE [host |-> host, err |-> NilError]

urlParse(rawURL) ==
    LET gs == getScheme(rawURL)
        scheme == ToLower(gs.scheme)
        rest == gs.rest
        firstSegment == IF Index(rest, "/") = 0 THEN rest
                        ELSE SubSeq(rest, 1, Index(rest, "/") - 1)
        hasAuthority == /\ HasPrefix(rest, <<"/", "/">>)
                        /\ (scheme # <<>> \/ ~HasPrefix(rest, <<"/", "/", "/">>))
        afterSlashes == From(rest, 3)
        authority == IF Index(afterSlashes, "/") = 0 THEN afterSlashes
                     ELSE SubSeq(afterSlashes, 1, Index(afterSlashes, "/") - 1)
        pathAfter == IF Index(afterSlashes, "/") = 0 THEN <<>>
                     ELSE From(afterSlashes, Index(afterSlashes, "/"))
    IN  IF gs.err # NilError
        THEN [Scheme |-> <<>>, Host |-> <<>>, Path |-> <<>>, err |-> gs.err]
        ELSE IF ~HasPrefix(rest, <<"/">>) /\ scheme # <<>>
        THEN \* a rootless path after a scheme is opaque
             [Scheme |-> scheme, Host |-> <<>>, Path |-> <<>>, err |-> NilError]
        ELSE IF ~HasPrefix(rest, <<"/">>) /\ Index(firstSegment, ":") # 0
        THEN [Scheme |-> <<>>, Host |-> <<>>, Path |-> <<>>,
              err |-> Errorf("first path segment in URL cannot contain colon", <<>>)]
        ELSE IF hasAuthority
        THEN IF parseHost(authority).err # NilError
             THEN [Scheme |-> <<>>, Host |-> <<>>, Path |-> <<>>,
                   err |-> parseHost(authority).err]
             ELSE [Scheme |-> scheme, Host |-> parseHost(authority).host,
                   Path |-> pathAfter, err |-> NilError]
        ELSE [Scheme |-> scheme, Host |-> <<>>, Path |-> rest, err |-> NilError]

\* Mutant of parseURL: the bucket is the path as it is.
parseURLKeepSlash(text) ==
    LET u == urlParse(text)
        withAddr == IF u.Host # <<>>
                    THEN [ZeroConfig EXCEPT
                             !.Addr = StringFrom(u.Scheme \o <<":", "/", "/">> \o u.Host)]
                    ELSE ZeroConfig
    IN  IF u.err # NilError
        THEN [conf |-> ZeroConfig, err |-> u.err]
        ELSE [conf |-> IF u.Path # <<>>
                       THEN [withAddr EXCEPT !.Bucket = StringFrom(u.Path)]
                       ELSE withAddr,
              err |-> NilError]

parseURL(text) ==
    LET u == urlParse(text)
        bucket == TrimPrefix(u.Path, <<"/">>)
        withAddr == IF u.Host # <<>>
                    THEN [ZeroConfig EXCEPT
                             !.Addr = StringFrom(u.Scheme \o <<":", "/", "/">> \o u.Host)]
                    ELSE ZeroConfig
    IN  IF u.err # NilError
        THEN [conf |-> ZeroConfig, err |-> u.err]
        ELSE [conf |-> IF bucket # <<>>
                       THEN [withAddr EXCEPT !.Bucket = StringFrom(bucket)]
                       ELSE withAddr,
              err |-> NilError]

\* --------------------------------------------------- environment variables
\* envconfig.Process with the lookup into the supplied map.  The maps of the
\* model carry the keys of Addr, Bucket, Token, ConcurrentWrites and
\* TagsAsFields.
EnvAddr == "K6_INFLUXDB_ADDR"
EnvBucket == "K6_INFLUXDB_BUCKET"
EnvToken == "K6_INFLUXDB_TOKEN"
EnvConcurrentWrites == "K6_INFLUXDB_CONCURRENT_WRITES"
EnvTagsAsFields == "K6_INFLUXDB_TAGS_AS_FIELDS"

\* strings.Split(s, ",")
RECURSIVE Split(_)
Split(s) ==
    IF Index(s, ",") = 0 THEN <<s>>
    ELSE <<SubSeq(s, 1, Index(s, ",") - 1)>> \o Split(From(s, Index(s, ",") + 1))

\* A []string field: the text split at the commas; an empty text gives an
\* empty slice.
ProcessStrings(text) == IF text = <<>> THEN <<>> ELSE Split(text)

\* null.String.UnmarshalText: the empty text leaves it unset.
UnmarshalTextString(text) == NewString(text, text # <<>>)

\* null.Int.UnmarshalText: the empty text leaves it unset.
UnmarshalTextInt(text) ==
    IF text = <<>> THEN [val |-> NewInt(0, FALSE), ok |-> TRUE]
    ELSE IF ParseInt(text).ok
         THEN [val |-> IntFrom(ParseInt(text).n), ok |-> TRUE]
         ELSE [val |-> NewInt(0, FALSE), ok |-> FALSE]

envconfigProcess(env) ==
    LET text(key) == IF key \in DOMAIN env THEN UnmarshalTextString(env[key])
                     ELSE NewString(<<>>, FALSE)
        bucket == text(EnvBucket)
        tags == IF EnvTagsAsFields \in DOMAIN env
                THEN ProcessStrings(env[EnvTagsAsFields]) ELSE <<>>
        writes == IF EnvConcurrentWrites \in DOMAIN env
                  THEN UnmarshalTextInt(env[EnvConcurrentWrites])
                  ELSE [val |-> NewInt(0, FALSE), ok |-> TRUE]
    IN  [conf |-> [ZeroConfig EXCEPT !.Addr = text(EnvAddr),
                                     !.Bucket = bucket,
                                     !.Token = text(EnvToken),
                                     !.ConcurrentWrites = writes.val,
                                     !.TagsAsFields = tags],
         err |-> IF writes.ok THEN NilError
                 ELSE Errorf("envconfig.Process: converting K6_INFLUXDB_CONCURRENT_WRITES", <<>>)]

\* --------------------------------------------------- GetConsolidatedConfig
\* jsonRawConf: nil, or a document.
EmptyDoc == [addr |-> Absent, bucket |-> Absent, token |-> Absent,
             concurrentWrites |-> Absent, tagsAsFields |-> Absent]
NoJSON == [t |-> "nil", doc |-> EmptyDoc]
RawMessage(d) == [t |-> "doc", doc |-> d]

\* The lookup GetConsolidatedConfig hands to envconfig.Process:
\* func(key) { v, ok := env[key]; return v, ok }.  Mutant: the lookup of the
\* process environment, which envconfig.Process uses when it is given none.
envLookupEnviron(env) == consolidated.environ
envLookup(env) == env

\* Mutant of GetConsolidatedConfig: the environment is applied before the
\* JSON document.
GetConsolidatedConfigEnvFirst(jsonRawConf, env, url) ==
    LET result0 == NewConfig
        jsonConf == IF jsonRawConf # NoJSON THEN parseJSON(jsonRawConf.doc)
                    ELSE [conf |-> ZeroConfig, err |-> NilError]
        envConfig == envconfigProcess(env)
        result1 == Apply(result0, envConfig.conf)
        result2 == IF jsonRawConf # NoJSON THEN Apply(result1, jsonConf.conf) ELSE result1
        urlConf == IF url # <<>> THEN parseURL(url)
                   ELSE [conf |-> ZeroConfig, err |-> NilError]
        result3 == IF url # <<>> THEN Apply(result2, urlConf.conf) ELSE result2
    IN  IF jsonConf.err # NilError THEN [conf |-> result0, err |-> jsonConf.err]
        ELSE IF envConfig.err # NilError THEN [conf |-> result1, err |-> envConfig.err]
        ELSE IF urlConf.err # NilError THEN [conf |-> result2, err |-> urlConf.err]
        ELSE [conf |-> result3, err |-> NilError]

GetConsolidatedConfig(jsonRawConf, env, url) ==
    LET result0 == NewConfig
        jsonConf == IF jsonRawConf # NoJSON THEN parseJSON(jsonRawConf.doc)
                    ELSE [conf |-> ZeroConfig, err |-> NilError]
        result1 == IF jsonRawConf # NoJSON THEN Apply(result0, jsonConf.conf) ELSE result0
        envConfig == envconfigProcess(envLookup(env))
        result2 == Apply(result1, envConfig.conf)
        urlConf == IF url # <<>> THEN parseURL(url)
                   ELSE [conf |-> ZeroConfig, err |-> NilError]
        result3 == IF url # <<>> THEN Apply(result2, urlConf.conf) ELSE result2
    IN  IF jsonConf.err # NilError THEN [conf |-> result0, err |-> jsonConf.err]
        ELSE IF envConfig.err # NilError THEN [conf |-> result1, err |-> envConfig.err]
        ELSE IF urlConf.err # NilError THEN [conf |-> result2, err |-> urlConf.err]
        ELSE [conf |-> result3, err |-> NilError]

\* ---------------------------------------------------------- makeFieldKinds
\* FieldKind
String == 0
IntKind == 1
Float == 2
Bool == 3

EmptyFieldKinds == [name \in {} |-> String]
FieldKindsPut(fieldKinds, name, kind) ==
    [n \in DOMAIN fieldKinds \cup { name } |->
        IF n = name THEN kind ELSE fieldKinds[n]]

\* Mutant of checkDuplicatedTypeDefinitions: a repeated name is accepted.
checkDuplicatedNever(fieldKinds, tag) == NilError

checkDuplicatedTypeDefinitions(fieldKinds, tag) ==
    IF tag \in DOMAIN fieldKinds
    THEN Errorf("a tag name (%s) shows up more than once in InfluxDB field type configurations",
                <<tag>>)
    ELSE NilError

\* One round of the loop of makeFieldKinds and the rounds after it.
RECURSIVE makeFieldKindsFrom(_, _)
makeFieldKindsFrom(tags, fieldKinds) ==
    IF tags = <<>> THEN [fieldKinds |-> fieldKinds, isNil |-> FALSE, err |-> NilError]
    ELSE LET s == SplitN2(Head(tags))
             fieldName == s[1]
             fieldType == IF Len(s) = 1 THEN <<"s", "t", "r", "i", "n", "g">> ELSE s[2]
             dup == checkDuplicatedTypeDefinitions(fieldKinds, fieldName)
         IN  IF dup # NilError
             THEN [fieldKinds |-> EmptyFieldKinds, isNil |-> TRUE, err |-> dup]
             ELSE IF fieldType = <<"s", "t", "r", "i", "n", "g">>
             THEN makeFieldKindsFrom(Tail(tags), FieldKindsPut(fieldKinds, fieldName, String))
             ELSE IF fieldType = <<"b", "o", "o", "l">>
             THEN makeFieldKindsFrom(Tail(tags), FieldKindsPut(fieldKinds, fieldName, Bool))
             ELSE IF fieldType = <<"f", "l", "o", "a", "t">>
             THEN makeFieldKindsFrom(Tail(tags), FieldKindsPut(fieldKinds, fieldName, Float))
             ELSE IF fieldType = <<"i", "n", "t">>
             THEN makeFieldKindsFrom(Tail(tags), FieldKindsPut(fieldKinds, fieldName, IntKind))
             ELSE [fieldKinds |-> EmptyFieldKinds, isNil |-> TRUE,
                   err |-> Errorf("an invalid type (%s) is specified for an InfluxDB field (%s)",
                                  <<fieldType, fieldName>>)]

makeFieldKinds(conf) == makeFieldKindsFrom(conf.TagsAsFields, EmptyFieldKinds)

\* --------------------------------------------------------------------- New
\* ---------------------------------------------------- extractTagsToValues
GoNil == [t |-> "nil", v |-> <<>>]
EmptyMap == [k \in {} |-> <<>>]
MapPut(m, k, v) == [x \in DOMAIN m \cup { k } |-> IF x = k THEN v ELSE m[x]]
MapDelete(m, k) == [x \in DOMAIN m \ { k } |-> m[x]]

\* The body of the switch: the value and the error of the conversion.
convert(kind, val) ==
    CASE kind = String -> [v |-> GoString(val), err |-> NilError]
      [] kind = Bool -> ParseBool(val)
      [] kind = Float -> ParseFloat(val)
      [] kind = IntKind -> ParseInt64(val)
      [] OTHER -> [v |-> GoNil, err |-> NilError]

\* Mutant of extractOne: the promoted tag is left in the tags map.
extractOneKeepTag(fieldKinds, tag, tags, values) ==
    IF tag \in DOMAIN tags
    THEN [tags |-> tags,
          values |-> MapPut(values, tag,
                            IF convert(fieldKinds[tag], tags[tag]).err = NilError
                            THEN convert(fieldKinds[tag], tags[tag]).v
                            ELSE GoString(tags[tag]))]
    ELSE [tags |-> tags, values |-> values]

\* Mutant of extractOne: a value that does not parse is dropped.
extractOneDropMalformed(fieldKinds, tag, tags, values) ==
    IF tag \in DOMAIN tags
    THEN [tags |-> MapDelete(tags, tag),
          values |-> IF convert(fieldKinds[tag], tags[tag]).err = NilError
                     THEN MapPut(values, tag, convert(fieldKinds[tag], tags[tag]).v)
                     ELSE values]
    ELSE [tags |-> tags, values |-> values]

\* One iteration of the range over o.fieldKinds.
extractOne(fieldKinds, tag, tags, values) ==
    IF tag \in DOMAIN tags
    THEN [tags |-> MapDelete(tags, tag),
          values |-> MapPut(values, tag,
                            IF convert(fieldKinds[tag], tags[tag]).err = NilError
                            THEN convert(fieldKinds[tag], tags[tag]).v
                            ELSE GoString(tags[tag]))]
    ELSE [tags |-> tags, values |-> values]

\* extractTagsToValues with the range over the map o.fieldKinds taken in the
\* given order of its keys (Go does not fix the order).  Both maps are
\* modified in place: the result is their contents on return.
RECURSIVE extractTagsToValues(_, _, _, _)
extractTagsToValues(fieldKinds, order, tags, values) ==
    IF order = <<>> THEN [tags |-> tags, values |-> values]
    ELSE extractTagsToValues(
             fieldKinds, Tail(order),
             extractOne(fieldKinds, Head(order), tags, values).tags,
             extractOne(fieldKinds, Head(order), tags, values).values)

\* The orders in which a range can visit the keys of a map.
Orders(m) ==
    { q \in [1..Cardinality(DOMAIN m) -> DOMAIN m] :
        \A i, j \in DOMAIN q : i # j => q[i] # q[j] }

\* The element of a one-element set; { e(x) : x \in { v } } binds x to the value
\* of v, the way a Go local holds the result of a call.
Only(S) == CHOOSE x \in S : TRUE

\* Mutant of New: the bucket is required to be set, not to be non-empty.
NewBucketSetOnly(p) ==
    LET failed(err) == [isNil |-> TRUE, err |-> err, config |-> ZeroConfig,
                        fieldKinds |-> EmptyFieldKinds, semaphoreCap |-> 0]
        checked(conf, err, fk) ==
            IF err # NilError THEN failed(err)
            ELSE IF ~conf.Bucket.Valid
            THEN failed(Errorf("the Bucket option is required", <<>>))
            ELSE IF conf.ConcurrentWrites.Int64 <= 0
            THEN failed(Errorf("the ConcurrentWrites option must be a positive number", <<>>))
            ELSE IF fk.err # NilError THEN failed(fk.err)
            ELSE [isNil |-> FALSE, err |-> NilError, config |-> conf,
                  fieldKinds |-> fk.fieldKinds,
                  semaphoreCap |-> conf.ConcurrentWrites.Int64]
    IN  Only({ Only({ checked(cc.conf, cc.err, fk) : fk \in { makeFieldKinds(cc.conf) } }) :
               cc \in { GetConsolidatedConfig(p.JSONConfig, p.Environment,
                                              p.ConfigArgument) } })

\* Mutant of New: only a negative ConcurrentWrites is refused.
NewAcceptsZero(p) ==
    LET failed(err) == [isNil |-> TRUE, err |-> err, config |-> ZeroConfig,
                        fieldKinds |-> EmptyFieldKinds, semaphoreCap |-> 0]
        checked(conf, err, fk) ==
            IF err # NilError THEN failed(err)
            ELSE IF conf.Bucket.String = <<>>
            THEN failed(Errorf("the Bucket option is required", <<>>))
            ELSE IF conf.ConcurrentWrites.Int64 < 0
            THEN failed(Errorf("the ConcurrentWrites option must be a positive number", <<>>))
            ELSE IF fk.err # NilError THEN failed(fk.err)
            ELSE [isNil |-> FALSE, err |-> NilError, config |-> conf,
                  fieldKinds |-> fk.fieldKinds,
                  semaphoreCap |-> conf.ConcurrentWrites.Int64]
    IN  Only({ Only({ checked(cc.conf, cc.err, fk) : fk \in { makeFieldKinds(cc.conf) } }) :
               cc \in { GetConsolidatedConfig(p.JSONConfig, p.Environment,
                                              p.ConfigArgument) } })

\* What New returns, and the capacity of the semaphore channel it made.
New(p) ==
    LET failed(err) == [isNil |-> TRUE, err |-> err, config |-> ZeroConfig,
                        fieldKinds |-> EmptyFieldKinds, semaphoreCap |-> 0]
        checked(conf, err, fk) ==
            IF err # NilError THEN failed(err)
            ELSE IF conf.Bucket.String = <<>>
            THEN failed(Errorf("the Bucket option is required", <<>>))
            ELSE IF conf.ConcurrentWrites.Int64 <= 0
            THEN failed(Errorf("the ConcurrentWrites option must be a positive number", <<>>))
            ELSE IF fk.err # NilError THEN failed(fk.err)
            ELSE [isNil |-> FALSE, err |-> NilError, config |-> conf,
                  fieldKinds |-> fk.fieldKinds,
                  semaphoreCap |-> conf.ConcurrentWrites.Int64]
    IN  Only({ Only({ checked(cc.conf, cc.err, fk) : fk \in { makeFieldKinds(cc.conf) } }) :
               cc \in { GetConsolidatedConfig(p.JSONConfig, p.Environment,
                                              p.ConfigArgument) } })


\* ------------------------------------------------------------------ inputs
\* bound of SpecFieldKinds: length of the tags-as-fields list
MaxDirectives == 3

\* The structured documents handed to New.
JSONDocs ==
    { [addr |-> Absent, bucket |-> b, token |-> Absent, concurrentWrites |-> w,
       tagsAsFields |-> t] :
        b \in { Absent, JSONString(<<>>), JSONString(<<"b">>) },
        w \in { Absent, JSONString(<<"0">>), JSONString(<<"-", "2">>),
                JSONString(<<"2">>), JSONNumber(<<"1">>), JSONString(<<"x">>) },
        t \in { Absent, JSONArray(<<<<"a">>, <<"a">>>>),
                JSONArray(<<<<"a", ":", "i", "n", "t">>>>), JSONArray(<<<<"a", ":", "b", "o", "o", "k">>>>) } }
JSONConfigs == { NoJSON } \cup { RawMessage(d) : d \in JSONDocs }

\* The environment maps handed to New.
EmptyEnv == [k \in {} |-> <<>>]
Environments ==
    { b @@ w :
        b \in { EmptyEnv, EnvBucket :> <<>>, EnvBucket :> <<"e">> },
        w \in { EmptyEnv, EnvConcurrentWrites :> <<"0">>,
                EnvConcurrentWrites :> <<"3">> } }

\* The URL arguments handed to New.
ConfigArguments ==
    { <<>>, <<"/">>, <<"b">>, <<"/", "b">>, <<"/", "d", "/", "r">>,
      <<"h", "t", "t", "p", ":", "/", "/", "h">>,
      <<"h", "t", "t", "p", ":", "/", "/", "h", ":", "8">>,
      <<"h", "t", "t", "p", ":", "/", "/", "h", "/", "b">>,
      <<"h", "t", "t", "p", ":", "/", "/", "h", "/">>,
      <<":">>, <<"/", "/", "h", "/", "b">>, <<"h", "t", "t", "p", ":", "/", "/", "h", ":", "p", "/", "b">> }

\* The tags-as-fields directives handed to makeFieldKinds.
Directives ==
    { <<"v", "u">>, <<"i", "t", "e", "r", ";", "b", "o", "o", "l">>,
      <<"b", ":", "b", "o", "o", "l">>, <<"b", ":", "f", "l", "o", "a", "t">>,
      <<"b", ":", "i", "n", "t">>, <<"b", ":", "s", "t", "r", "i", "n", "g">>,
      <<"b", ":", "b", "o", "o", "k">>, <<"b", ":", "I", "n", "t">>,
      <<"v", "u", ":", "i", "n", "t">>, <<"a", ":", "b", ":", "i", "n", "t">> }
RECURSIVE SeqsUpTo(_, _)
SeqsUpTo(S, n) ==
    IF n = 0 THEN { <<>> }
    ELSE SeqsUpTo(S, n - 1)
         \cup { Append(q, x) : q \in { r \in SeqsUpTo(S, n - 1) : Len(r) = n - 1 }, x \in S }

NoParams == [JSONConfig |-> NoJSON, Environment |-> EmptyEnv, ConfigArgument |-> <<>>]
NotCalled == [called |-> FALSE, isNil |-> TRUE, err |-> NilError,
              config |-> ZeroConfig, fieldKinds |-> EmptyFieldKinds]
NoFieldKinds == [called |-> FALSE, isNil |-> TRUE, err |-> NilError,
                 fieldKinds |-> EmptyFieldKinds]

\* bound of SpecExtract: number of tag names in the tag maps and the tables
MaxTagNames == 2
TagNamePool == << <<"a">>, <<"b">>, <<"c">> >>
TagNames == { TagNamePool[i] : i \in 1..MaxTagNames }
\* Tag values: texts that parse as several kinds, as one kind, as none.
TagValues ==
    { <<"t", "r", "u", "e">>, <<"T">>, <<"1">>, <<"1", "2", "3", "4", "5">>, <<"+", "0", "0", "7">>, <<"3", ".", "1", "4", "0">>,
      <<"9", "2", "2", "3", "3", "7", "2", "0", "3", "6", "8", "5", "4", "7", "7", "5", "8", "0", "8">>, <<"s", "t", "r", "i", "n", "g">>, <<>> }
PartialMaps(D, R) == UNION { [d -> R] : d \in SUBSET D }
NoExtraction == [called |-> FALSE, fieldKinds |-> EmptyFieldKinds,
                 given |-> EmptyMap, tags |-> EmptyMap, values |-> EmptyMap]

\* bound of SpecBatch: number of samples handed to batchFromSamples
MaxBatchSamples == 3
\* The tag names of the batches: a plain one and the reserved field name.
BatchTagNames == { <<"a">>, <<"v", "a", "l", "u", "e">> }
\* Tag values of the batches: one that parses as every kind, one as none.
BatchTagValues == { <<"1">>, <<"x">> }
\* The *stats.SampleTags pointers of the samples.
TagSetPointers == { 1, 2 }
DigitChars == <<"1", "2", "3", "4", "5", "6", "7", "8", "9">>
\* Sample k of a batch: its own value and time, a metric name that alternates,
\* and the TagSet pointer given for it.
SampleOf(k, pointer) ==
    [Metric |-> [Name |-> IF k % 2 = 1 THEN "m" ELSE "n"], Tags |-> pointer,
     Value |-> GoFloat64(<<DigitChars[k]>>), Time |-> 100 + k]
\* The samples cut into containers of the given sizes.
ContainersOf(samples, sizes) ==
    [j \in 1..Len(sizes) |->
        SubSeq(samples, SumSeq(SubSeq(sizes, 1, j - 1)) + 1,
               SumSeq(SubSeq(sizes, 1, j)))]
BatchShapes == { <<MaxBatchSamples>>, <<1, MaxBatchSamples - 1>>,
                 <<MaxBatchSamples - 1, 0, 1>> }
NoBatchIn == [fieldKinds |-> EmptyFieldKinds, tagSets |-> EmptyMap, containers |-> <<>>]
NoBatch == [pc |-> "idle", container |-> 0, sample |-> 0, cache |-> EmptyMap,
            points |-> <<>>, cycle |-> 0, earlier |-> <<>>]
\* number of flush cycles that build points from the same TagSet instances
MaxCycles == 2

\* The documents, environments and URL arguments handed to
\* GetConsolidatedConfig: every option set or unset in every layer.
ConfigDocs ==
    { [addr |-> a, bucket |-> b, token |-> k, concurrentWrites |-> w,
       tagsAsFields |-> t] :
        a \in { Absent, JSONString(<<"h", "t", "t", "p", ":", "/", "/", "j">>) },
        b \in { Absent, JSONString(<<>>), JSONString(<<"b", "j">>) },
        k \in { Absent, JSONString(<<"t", "j">>) },
        w \in { Absent, JSONNumber(<<"1">>), JSONString(<<"x">>) },
        t \in { Absent, JSONArray(<<<<"a", ":", "i", "n", "t">>>>) } }
ConfigJSONConfigs == { NoJSON } \cup { RawMessage(d) : d \in ConfigDocs }
ConfigEnvironments ==
    { a @@ b @@ k @@ w @@ t :
        a \in { EmptyEnv, EnvAddr :> <<"h", "t", "t", "p", ":", "/", "/", "e">> },
        b \in { EmptyEnv, EnvBucket :> <<>>, EnvBucket :> <<"b", "e">> },
        k \in { EmptyEnv, EnvToken :> <<"t", "e">> },
        w \in { EmptyEnv, EnvConcurrentWrites :> <<>>, EnvConcurrentWrites :> <<"3">> },
        t \in { EmptyEnv, EnvTagsAsFields :> <<"x", ",", "y">> } }
ConfigURLs ==
    { <<>>, <<"/", "b", "u">>, <<"h", "t", "t", "p", ":", "/", "/", "h">>, <<"h", "t", "t", "p", ":", "/", "/", "h", "/", "b", "u">>, <<"h", "t", "t", "p", ":", "/", "/", "h", "/">>, <<":">> }
\* What the process environment holds besides the map handed to
\* GetConsolidatedConfig: nothing at first, then every option.
ProcessEnvironments ==
    { EnvAddr :> <<"h", "t", "t", "p", ":", "/", "/", "p">>
        @@ EnvBucket :> <<"b", "p">> @@ EnvToken :> <<"t", "p">>
        @@ EnvConcurrentWrites :> <<"7">> @@ EnvTagsAsFields :> <<"p">> }
NotConsolidated ==
    [called |-> FALSE, conf |-> ZeroConfig, err |-> NilError,
     environ |-> EmptyEnv,
     again |-> [called |-> FALSE, conf |-> ZeroConfig, err |-> NilError]]

\* The URL arguments handed to parseURL, written from their parts: a scheme,
\* a host (with or without port) and a path.
URLSchemes == { <<>>, <<"h", "t", "t", "p">>, <<"h", "t", "t", "p", "s">>, <<"H", "T", "T", "P">> }
URLHosts == { <<>>, <<"h">>, <<"h", ".", "x">>, <<"l", "o", "c", "a", "l", "h", "o", "s", "t", ":", "8", "0", "8", "6">> }
URLPaths == { <<>>, <<"/">>, <<"/", "b", "u", "c", "k", "e", "t", "n", "a", "m", "e">>, <<"/", "d", "b", "n", "a", "m", "e", "/", "r", "e", "t", "e", "n", "t", "i", "o", "n">>, <<"b", "u", "c", "k", "e", "t", "n", "a", "m", "e">>,
              <<"/", "/", "b">>, <<"/", "b", "/">>, <<"/", "a", "/", "b", "/", "c">> }
\* The parts make a URL that reads back as these parts: a host is followed by
\* an empty or rooted path; without a host the path does not begin with "//"
\* and, after a scheme, is empty or rooted.
WellFormedParts(scheme, host, path) ==
    /\ host # <<>> => (path = <<>> \/ Head(path) = "/")
    /\ host = <<>> => ~HasPrefix(path, <<"/", "/">>)
    /\ (host = <<>> /\ scheme # <<>>) => (path = <<>> \/ Head(path) = "/")
URLParts ==
    { p \in [scheme : URLSchemes, host : URLHosts, path : URLPaths] :
        WellFormedParts(p.scheme, p.host, p.path) }
URLText(scheme, host, path) ==
    (IF scheme # <<>> THEN scheme \o <<":">> ELSE <<>>)
    \o (IF host # <<>> THEN <<"/", "/">> \o host ELSE <<>>)
    \o path
NotParsed == [called |-> FALSE, scheme |-> <<>>, host |-> <<>>, path |-> <<>>,
              text |-> <<>>, conf |-> ZeroConfig, err |-> NilError]

\* ------------------------------------------------------------------- Init
\* The fields of the Output that New returns, with a semaphore of capacity cap.
Constructed(cap) ==
    /\ started = FALSE
    /\ semaphoreCap = cap
    /\ semaphoreCh = 0
    /\ wg = 0
    /\ clientClosed = 0
    /\ buffer = <<>>
    /\ bufLock = Free
    /\ prodPc = [p \in Producers |-> "idle"]
    /\ prodCall = [p \in Producers |-> 0]
    /\ calls = <<>>
    /\ flPc = "none"
    /\ flFinal = FALSE
    /\ flSamples = <<>>
    /\ flFinals = 0
    /\ stopSignal = FALSE
    /\ writers = <<>>
    /\ stopPc = "running"
    /\ stopErr = "none"

\* No call of New or of makeFieldKinds is under test.
CtorIdle ==
    /\ params = NoParams
    /\ newOut = NotCalled
    /\ tagsAsFields = <<>>
    /\ fieldKindsOut = NoFieldKinds

\* No function is under test on its own.
FnIdle ==
    /\ extraction = NoExtraction
    /\ batchIn = NoBatchIn
    /\ batch = NoBatch
    /\ consolidated = NotConsolidated
    /\ parsedURL = NotParsed

\* An Output constructed with ConcurrentWrites in 1..MaxConcurrentWrites.
Init ==
    /\ \E cap \in 1..MaxConcurrentWrites : Constructed(cap)
    /\ params = NoParams
    /\ newOut = NotCalled
    /\ tagsAsFields = <<>>
    /\ fieldKindsOut = NoFieldKinds
    /\ FnIdle

\* Before New: parameters drawn from the inputs, no Output yet.
InitNew ==
    /\ Constructed(0)
    /\ params \in [JSONConfig : JSONConfigs, Environment : Environments,
                   ConfigArgument : ConfigArguments]
    /\ newOut = NotCalled
    /\ tagsAsFields = <<>>
    /\ fieldKindsOut = NoFieldKinds
    /\ FnIdle

\* Before makeFieldKinds: a list of directives drawn from the inputs.
InitFieldKinds ==
    /\ Constructed(0)
    /\ params = NoParams
    /\ newOut = NotCalled
    /\ tagsAsFields \in SeqsUpTo(Directives, MaxDirectives)
    /\ fieldKindsOut = NoFieldKinds
    /\ FnIdle

\* Before extractTagsToValues: a field-kind table and a tag map drawn from
\* the inputs, and the empty values map every caller passes.
InitExtract ==
    /\ Constructed(0)
    /\ CtorIdle
    /\ batchIn = NoBatchIn
    /\ batch = NoBatch
    /\ consolidated = NotConsolidated
    /\ parsedURL = NotParsed
    /\ extraction \in [called : { FALSE },
                       fieldKinds : PartialMaps(TagNames, { String, Bool, Float, IntKind }),
                       given : PartialMaps(TagNames, TagValues),
                       tags : { EmptyMap }, values : { EmptyMap }]

\* Before batchFromSamples: a field-kind table, the tag maps of the TagSets
\* and the containers drawn from the inputs.
InitBatch ==
    /\ Constructed(0)
    /\ CtorIdle
    /\ extraction = NoExtraction
    /\ batch = NoBatch
    /\ consolidated = NotConsolidated
    /\ parsedURL = NotParsed
    /\ \E pointers \in [1..MaxBatchSamples -> TagSetPointers], sizes \in BatchShapes :
          batchIn \in
              [fieldKinds : PartialMaps(BatchTagNames, { String, Bool, Float, IntKind }),
               tagSets : [TagSetPointers -> PartialMaps(BatchTagNames, BatchTagValues)],
               containers : { ContainersOf([k \in 1..MaxBatchSamples |->
                                               SampleOf(k, pointers[k])], sizes) }]

\* Before GetConsolidatedConfig: a document, an environment and a URL argument.
InitConfig ==
    /\ Constructed(0)
    /\ params \in [JSONConfig : ConfigJSONConfigs, Environment : ConfigEnvironments,
                   ConfigArgument : ConfigURLs]
    /\ newOut = NotCalled
    /\ tagsAsFields = <<>>
    /\ fieldKindsOut = NoFieldKinds
    /\ FnIdle

\* Before parseURL: a URL text made of a scheme, a host and a path.
InitURL ==
    /\ Constructed(0)
    /\ CtorIdle
    /\ extraction = NoExtraction
    /\ batchIn = NoBatchIn
    /\ batch = NoBatch
    /\ consolidated = NotConsolidated
    /\ \E p \in URLParts :
          parsedURL = [NotParsed EXCEPT !.scheme = p.scheme, !.host = p.host,
                                        !.path = p.path,
                                        !.text = URLText(p.scheme, p.host, p.path)]

\* ------------------------------------------------------- constructor steps
\* New(params): on success the Output holds a semaphore channel of capacity
\* conf.ConcurrentWrites.
NewOutput ==
    /\ ~newOut.called
    /\ \E out \in { New(params) } :
          /\ newOut' = [called |-> TRUE, isNil |-> out.isNil, err |-> out.err,
                        config |-> out.config, fieldKinds |-> out.fieldKinds]
          /\ semaphoreCap' = out.semaphoreCap
    /\ UNCHANGED <<params, tagsAsFields, fieldKindsOut>>
    /\ UNCHANGED fnVars
    /\ UNCHANGED <<started, semaphoreCh, wg, clientClosed, buffer, bufLock,
                   prodPc, prodCall, calls, flPc, flFinal, flSamples, flFinals,
                   stopSignal, writers, stopPc, stopErr>>

\* makeFieldKinds on NewConfig() with the TagsAsFields under test.
MakeFieldKinds ==
    /\ ~fieldKindsOut.called
    /\ LET r == makeFieldKinds([NewConfig EXCEPT !.TagsAsFields = tagsAsFields])
       IN  fieldKindsOut' = [called |-> TRUE, isNil |-> r.isNil, err |-> r.err,
                             fieldKinds |-> r.fieldKinds]
    /\ UNCHANGED <<params, newOut, tagsAsFields>>
    /\ UNCHANGED fnVars
    /\ UNCHANGED lifeVars

\* GetConsolidatedConfig(params.JSONConfig, params.Environment,
\* params.ConfigArgument)
Consolidate ==
    /\ ~consolidated.called
    /\ \E r \in { GetConsolidatedConfig(params.JSONConfig, params.Environment,
                                        params.ConfigArgument) } :
          consolidated' = [consolidated EXCEPT !.called = TRUE, !.conf = r.conf,
                                               !.err = r.err]
    /\ UNCHANGED <<extraction, batchIn, batch, parsedURL>>
    /\ UNCHANGED ctorVars
    /\ UNCHANGED lifeVars

\* The process environment changes between two calls (os.Setenv by the host).
Setenv ==
    /\ consolidated.called
    /\ ~consolidated.again.called
    /\ consolidated.environ = EmptyEnv
    /\ \E environ \in ProcessEnvironments :
          consolidated' = [consolidated EXCEPT !.environ = environ]
    /\ UNCHANGED <<extraction, batchIn, batch, parsedURL>>
    /\ UNCHANGED ctorVars
    /\ UNCHANGED lifeVars

\* GetConsolidatedConfig(jsonRawConf, env, url), called a second time with
\* the same arguments.
ConsolidateAgain ==
    /\ consolidated.called
    /\ ~consolidated.again.called
    /\ \E r \in { GetConsolidatedConfig(params.JSONConfig, params.Environment,
                                        params.ConfigArgument) } :
          consolidated' = [consolidated EXCEPT
                              !.again = [called |-> TRUE, conf |-> r.conf,
                                         err |-> r.err]]
    /\ UNCHANGED <<extraction, batchIn, batch, parsedURL>>
    /\ UNCHANGED ctorVars
    /\ UNCHANGED lifeVars

\* parseURL(text)
ParseURL ==
    /\ ~parsedURL.called
    /\ \E r \in { parseURL(parsedURL.text) } :
          parsedURL' = [parsedURL EXCEPT !.called = TRUE, !.conf = r.conf,
                                         !.err = r.err]
    /\ UNCHANGED <<extraction, batchIn, batch, consolidated>>
    /\ UNCHANGED ctorVars
    /\ UNCHANGED lifeVars

\* extractTagsToValues(tags, values) on a copy of the tag map, range order
\* chosen by the runtime.
ExtractTagsToValues ==
    /\ ~extraction.called
    /\ \E order \in Orders(extraction.fieldKinds) :
          \E r \in { extractTagsToValues(extraction.fieldKinds, order,
                                         extraction.given, EmptyMap) } :
              extraction' = [extraction EXCEPT !.called = TRUE, !.tags = r.tags,
                                               !.values = r.values]
    /\ UNCHANGED <<batchIn, batch, consolidated, parsedURL>>
    /\ UNCHANGED ctorVars
    /\ UNCHANGED lifeVars

\* --------------------------------------------------------- batchFromSamples
\* influxdbclient.NewPoint: the point takes the contents of the two maps.
NewPoint(measurement, tags, fields, ts) ==
    [measurement |-> measurement, tags |-> tags, fields |-> fields, ts |-> ts]
ValueKey == <<"v", "a", "l", "u", "e">>

\* batchFromSamples is entered: empty cache, no points, first container.
BatchEnter ==
    /\ batch.pc = "idle"
    /\ batch' = [batch EXCEPT !.pc = "loop", !.container = 1, !.sample = 1,
                              !.cache = EmptyMap, !.points = <<>>, !.cycle = 1]
    /\ UNCHANGED <<extraction, batchIn, consolidated, parsedURL>>
    /\ UNCHANGED ctorVars
    /\ UNCHANGED lifeVars

\* The samples of the current container are exhausted: next container.
BatchNextContainer ==
    /\ batch.pc = "loop"
    /\ batch.container <= Len(batchIn.containers)
    /\ batch.sample > Len(batchIn.containers[batch.container])
    /\ batch' = [batch EXCEPT !.container = @ + 1, !.sample = 1]
    /\ UNCHANGED <<extraction, batchIn, consolidated, parsedURL>>
    /\ UNCHANGED ctorVars
    /\ UNCHANGED lifeVars

\* Mutant of BatchSampleCached: the cached values map is used as it is.
BatchSampleCachedShared(sample) ==
    /\ sample.Tags \in DOMAIN batch.cache
    /\ batch' = [batch EXCEPT
                    !.sample = @ + 1,
                    !.points = Append(@, NewPoint(sample.Metric.Name,
                                                  batch.cache[sample.Tags].tags,
                                                  batch.cache[sample.Tags].values,
                                                  sample.Time))]
    /\ UNCHANGED batchIn

\* Loop body, the TagSet of the sample is in the cache: the tags map of the
\* cache entry, a copy of its values map, and the sample's value.
BatchSampleCached(sample) ==
    /\ sample.Tags \in DOMAIN batch.cache
    /\ batch' = [batch EXCEPT
                    !.sample = @ + 1,
                    !.points = Append(@, NewPoint(sample.Metric.Name,
                                                  batch.cache[sample.Tags].tags,
                                                  MapPut(batch.cache[sample.Tags].values,
                                                         ValueKey, sample.Value),
                                                  sample.Time))]
    /\ UNCHANGED batchIn

\* Mutant of BatchSampleFresh: the point is put in front of the batch.
BatchSampleFreshPrepend(sample) ==
    /\ sample.Tags \notin DOMAIN batch.cache
    /\ \E order \in Orders(batchIn.fieldKinds) :
          \E r \in { extractTagsToValues(batchIn.fieldKinds, order,
                                         batchIn.tagSets[sample.Tags], EmptyMap) } :
              batch' = [batch EXCEPT
                          !.sample = @ + 1,
                          !.cache = MapPut(@, sample.Tags,
                                           [tags |-> r.tags,
                                            values |-> MapPut(r.values, ValueKey,
                                                              sample.Value)]),
                          !.points = <<NewPoint(sample.Metric.Name, r.tags,
                                                MapPut(r.values, ValueKey, sample.Value),
                                                sample.Time)>> \o @]
    /\ UNCHANGED batchIn

\* Mutant of BatchSampleFresh: the cache item gets the cloned tags as they were
\* before the promoted tags were extracted, and an empty values map.
BatchSampleFreshCacheUnextracted(sample) ==
    /\ sample.Tags \notin DOMAIN batch.cache
    /\ \E order \in Orders(batchIn.fieldKinds) :
          \E r \in { extractTagsToValues(batchIn.fieldKinds, order,
                                         batchIn.tagSets[sample.Tags], EmptyMap) } :
              batch' = [batch EXCEPT
                          !.sample = @ + 1,
                          !.cache = MapPut(@, sample.Tags,
                                           [tags |-> batchIn.tagSets[sample.Tags],
                                            values |-> EmptyMap]),
                          !.points = Append(@, NewPoint(sample.Metric.Name, r.tags,
                                                MapPut(r.values, ValueKey, sample.Value),
                                                sample.Time))]
    /\ UNCHANGED batchIn

\* Mutant of BatchSampleFresh: the promoted tags are extracted from the
\* sample's TagSet itself, not from a clone of it.
BatchSampleFreshNoClone(sample) ==
    /\ sample.Tags \notin DOMAIN batch.cache
    /\ \E order \in Orders(batchIn.fieldKinds) :
          \E r \in { extractTagsToValues(batchIn.fieldKinds, order,
                                         batchIn.tagSets[sample.Tags], EmptyMap) } :
              /\ batch' = [batch EXCEPT
                              !.sample = @ + 1,
                              !.cache = MapPut(@, sample.Tags,
                                               [tags |-> r.tags,
                                                values |-> MapPut(r.values, ValueKey,
                                                                  sample.Value)]),
                              !.points = Append(@, NewPoint(sample.Metric.Name, r.tags,
                                                    MapPut(r.values, ValueKey, sample.Value),
                                                    sample.Time))]
              /\ batchIn' = [batchIn EXCEPT !.tagSets[sample.Tags] = r.tags]

\* Loop body, the TagSet is not in the cache: the tags are cloned, the
\* promoted tags extracted, and the two maps put in the cache.  The cache item
\* holds the values map itself, so the sample's value written to it next is
\* in the cached map too.
BatchSampleFresh(sample) ==
    /\ sample.Tags \notin DOMAIN batch.cache
    /\ \E order \in Orders(batchIn.fieldKinds) :
          \E r \in { extractTagsToValues(batchIn.fieldKinds, order,
                                         batchIn.tagSets[sample.Tags], EmptyMap) } :
              batch' = [batch EXCEPT
                          !.sample = @ + 1,
                          !.cache = MapPut(@, sample.Tags,
                                           [tags |-> r.tags,
                                            values |-> MapPut(r.values, ValueKey,
                                                              sample.Value)]),
                          !.points = Append(@, NewPoint(sample.Metric.Name, r.tags,
                                                        MapPut(r.values, ValueKey,
                                                               sample.Value),
                                                        sample.Time))]
    /\ UNCHANGED batchIn

\* One iteration of the loop over the samples of the current container.
BatchSample ==
    /\ batch.pc = "loop"
    /\ batch.container <= Len(batchIn.containers)
    /\ batch.sample <= Len(batchIn.containers[batch.container])
    /\ \/ BatchSampleCached(batchIn.containers[batch.container][batch.sample])
       \/ BatchSampleFresh(batchIn.containers[batch.container][batch.sample])
    /\ UNCHANGED <<extraction, consolidated, parsedURL>>
    /\ UNCHANGED ctorVars
    /\ UNCHANGED lifeVars

\* The containers are exhausted: batchFromSamples returns the points.
BatchReturn ==
    /\ batch.pc = "loop"
    /\ batch.container > Len(batchIn.containers)
    /\ batch' = [batch EXCEPT !.pc = "returned"]
    /\ UNCHANGED <<extraction, batchIn, consolidated, parsedURL>>
    /\ UNCHANGED ctorVars
    /\ UNCHANGED lifeVars

\* A later flush cycle: batchFromSamples is called again, with a new cache,
\* on containers whose samples carry the same TagSet instances.
BatchAgain ==
    /\ batch.pc = "returned"
    /\ batch.cycle < MaxCycles
    /\ batch' = [batch EXCEPT !.pc = "loop", !.container = 1, !.sample = 1,
                              !.cache = EmptyMap, !.points = <<>>,
                              !.cycle = @ + 1, !.earlier = batch.points]
    /\ UNCHANGED <<extraction, batchIn, consolidated, parsedURL>>
    /\ UNCHANGED ctorVars
    /\ UNCHANGED lifeVars

\* ------------------------------------------------------------------ Start
Start ==
    /\ ~started
    /\ started' = TRUE
    /\ flPc' = "select"
    /\ UNCHANGED pureVars
    /\ UNCHANGED <<semaphoreCap, semaphoreCh, wg, clientClosed, buffer,
                   bufLock, prodPc, prodCall, calls, flFinal, flSamples,
                   flFinals, stopSignal, writers, stopPc,
                   stopErr>>

\* ------------------------------------------------- SampleBuffer (producer)
\* AddMetricSamples, first half: sc.Lock().
AddMetricSamplesLock(p, sizes) ==
    /\ started
    /\ stopPc = "running"
    /\ prodPc[p] = "idle"
    /\ Len(calls) < MaxCalls
    /\ ShapeAllowed(sizes)
    /\ bufLock = Free
    /\ bufLock' = HeldBy(p)
    /\ prodPc' = [prodPc EXCEPT ![p] = "locked"]
    /\ prodCall' = [prodCall EXCEPT ![p] = Len(calls) + 1]
    /\ calls' = Append(calls, [containers |-> Containers(Len(calls) + 1, sizes),
                               returned |-> FALSE,
                               beforeStop |-> FALSE])
    /\ UNCHANGED pureVars
    /\ UNCHANGED <<started, semaphoreCap, semaphoreCh, wg, clientClosed,
                   buffer, flPc, flFinal, flSamples, flFinals,
                   stopSignal, writers, stopPc, stopErr>>

\* AddMetricSamples, second half: append, sc.Unlock(), return.
AddMetricSamplesAppend(p) ==
    /\ prodPc[p] = "locked"
    /\ bufLock = HeldBy(p)
    /\ buffer' = buffer \o calls[prodCall[p]].containers
    /\ bufLock' = Free
    /\ prodPc' = [prodPc EXCEPT ![p] = "idle"]
    /\ prodCall' = [prodCall EXCEPT ![p] = 0]
    /\ calls' = [calls EXCEPT ![prodCall[p]] =
                    [@ EXCEPT !.returned = TRUE,
                              !.beforeStop = (stopPc = "running")]]
    /\ UNCHANGED pureVars
    /\ UNCHANGED <<started, semaphoreCap, semaphoreCh, wg, clientClosed,
                   flPc, flFinal, flSamples, flFinals,
                   stopSignal, writers, stopPc, stopErr>>

\* -------------------------------------------------------- PeriodicFlusher
\* Mutant of FlusherTick: the tick starts flushMetrics without waiting for the
\* invocation in progress to return.
FlusherTickAsync ==
    /\ flPc \in {"select", "add", "acquire", "spawn"}
    /\ flPc' = "drain"
    /\ flFinal' = FALSE
    /\ UNCHANGED pureVars
    /\ UNCHANGED <<started, semaphoreCap, semaphoreCh, wg, clientClosed,
                   buffer, bufLock, prodPc, prodCall, calls, flSamples,
                   flFinals, stopSignal, writers, stopPc, stopErr>>

\* Mutant of FlusherTick: ticks are still served after the flusher reported
\* that it has stopped.
FlusherTickAfterStopped ==
    /\ flPc \in {"select", "stopped"}
    /\ flPc' = "drain"
    /\ flFinal' = FALSE
    /\ UNCHANGED pureVars
    /\ UNCHANGED <<started, semaphoreCap, semaphoreCh, wg, clientClosed,
                   buffer, bufLock, prodPc, prodCall, calls, flSamples,
                   flFinals, stopSignal, writers, stopPc, stopErr>>

\* The flusher's select takes the ticker case: it calls flushMetrics.
FlusherTick ==
    /\ flPc = "select"
    /\ flPc' = "drain"
    /\ flFinal' = FALSE
    /\ UNCHANGED pureVars
    /\ UNCHANGED <<started, semaphoreCap, semaphoreCh, wg, clientClosed,
                   buffer, bufLock, prodPc, prodCall, calls, flSamples,
                   flFinals, stopSignal, writers, stopPc, stopErr>>

\* The flusher's select takes the stop case: one last flushMetrics.
FlusherStopCase ==
    /\ flPc = "select"
    /\ stopSignal
    /\ flPc' = "drain"
    /\ flFinal' = TRUE
    /\ flFinals' = flFinals + 1
    /\ UNCHANGED pureVars
    /\ UNCHANGED <<started, semaphoreCap, semaphoreCh, wg, clientClosed,
                   buffer, bufLock, prodPc, prodCall, calls, flSamples,
                   stopSignal, writers, stopPc, stopErr>>

\* Where the flusher goes when flushMetrics returns.
AfterFlush == IF flFinal THEN "stopped" ELSE "select"

\* ----------------------------------------------------------- flushMetrics
\* Mutant of FlushDrain: the drain hands over the first container only and
\* leaves the rest buffered.
FlushDrainFirstContainer ==
    /\ flPc = "drain"
    /\ bufLock = Free
    /\ buffer' = IF buffer = <<>> THEN <<>> ELSE Tail(buffer)
    /\ flSamples' = IF buffer = <<>> THEN <<>> ELSE <<Head(buffer)>>
    /\ flPc' = IF Len(buffer) = 0 THEN AfterFlush ELSE "add"
    /\ UNCHANGED pureVars
    /\ UNCHANGED <<started, semaphoreCap, semaphoreCh, wg, clientClosed,
                   bufLock, prodPc, prodCall, calls, flFinal, flFinals,
                   stopSignal, writers, stopPc, stopErr>>

\* Mutant of FlushDrain: the buffer's lock is still held when the drain returns.
FlushDrainHoldingLock ==
    /\ flPc = "drain"
    /\ bufLock = Free
    /\ bufLock' = HeldByFlusher
    /\ buffer' = <<>>
    /\ flSamples' = buffer
    /\ flPc' = IF Len(buffer) = 0 THEN AfterFlush ELSE "add"
    /\ UNCHANGED pureVars
    /\ UNCHANGED <<started, semaphoreCap, semaphoreCh, wg, clientClosed,
                   prodPc, prodCall, calls, flFinal, flFinals, stopSignal,
                   writers, stopPc, stopErr>>

\* Mutant of FlushDrain: the flush goes on to wg.Add(1) whatever the drain
\* returned.
FlushDrainNoEmptyCheck ==
    /\ flPc = "drain"
    /\ bufLock = Free
    /\ buffer' = <<>>
    /\ flSamples' = buffer
    /\ flPc' = "add"
    /\ UNCHANGED pureVars
    /\ UNCHANGED <<started, semaphoreCap, semaphoreCh, wg, clientClosed,
                   bufLock, prodPc, prodCall, calls, flFinal, flFinals,
                   stopSignal, writers, stopPc, stopErr>>

\* samples := o.GetBufferedSamples(); if len(samples) == 0 { return }
FlushDrain ==
    /\ flPc = "drain"
    /\ bufLock = Free
    /\ buffer' = <<>>
    /\ flSamples' = buffer
    /\ flPc' = IF Len(buffer) = 0 THEN AfterFlush ELSE "add"
    /\ UNCHANGED pureVars
    /\ UNCHANGED <<started, semaphoreCap, semaphoreCh, wg, clientClosed,
                   bufLock, prodPc, prodCall, calls, flFinal, flFinals, stopSignal, writers, stopPc, stopErr>>

\* Mutant of FlushWgAdd: the flush routine goes on to spawn the writer without
\* taking a permit first.
FlushWgAddThenSpawn ==
    /\ flPc = "add"
    /\ wg' = wg + 1
    /\ flPc' = "spawn"
    /\ UNCHANGED pureVars
    /\ UNCHANGED <<started, semaphoreCap, semaphoreCh, clientClosed, buffer,
                   bufLock, prodPc, prodCall, calls, flFinal, flSamples,
                   flFinals, stopSignal, writers, stopPc,
                   stopErr>>

\* o.wg.Add(1)
FlushWgAdd ==
    /\ flPc = "add"
    /\ wg' = wg + 1
    /\ flPc' = "acquire"
    /\ UNCHANGED pureVars
    /\ UNCHANGED <<started, semaphoreCap, semaphoreCh, clientClosed, buffer,
                   bufLock, prodPc, prodCall, calls, flFinal, flSamples,
                   flFinals, stopSignal, writers, stopPc,
                   stopErr>>

\* Mutant of FlushAcquire: the send never blocks.
FlushAcquireUnbounded ==
    /\ flPc = "acquire"
    /\ semaphoreCh' = semaphoreCh + 1
    /\ flPc' = "spawn"
    /\ UNCHANGED pureVars
    /\ UNCHANGED <<started, semaphoreCap, wg, clientClosed, buffer, bufLock,
                   prodPc, prodCall, calls, flFinal, flSamples, flFinals,
                   stopSignal, writers, stopPc, stopErr>>

\* Mutant of FlushAcquire: when every permit is held the flush gives up the
\* drained samples and returns instead of blocking.
FlushAcquireDropWhenFull ==
    /\ flPc = "acquire"
    /\ semaphoreCh' = IF semaphoreCh < semaphoreCap THEN semaphoreCh + 1 ELSE semaphoreCh
    /\ flPc' = IF semaphoreCh < semaphoreCap THEN "spawn" ELSE AfterFlush
    /\ flSamples' = IF semaphoreCh < semaphoreCap THEN flSamples ELSE <<>>
    /\ wg' = IF semaphoreCh < semaphoreCap THEN wg ELSE wg - 1
    /\ UNCHANGED pureVars
    /\ UNCHANGED <<started, semaphoreCap, clientClosed, buffer, bufLock,
                   prodPc, prodCall, calls, flFinal, flFinals,
                   stopSignal, writers, stopPc, stopErr>>

\* o.semaphoreCh <- struct{}{}: blocks while the channel is full.
FlushAcquire ==
    /\ flPc = "acquire"
    /\ semaphoreCh < semaphoreCap
    /\ semaphoreCh' = semaphoreCh + 1
    /\ flPc' = "spawn"
    /\ UNCHANGED pureVars
    /\ UNCHANGED <<started, semaphoreCap, wg, clientClosed, buffer, bufLock,
                   prodPc, prodCall, calls, flFinal, flSamples, flFinals, stopSignal, writers, stopPc, stopErr>>

\* Mutant of FlushSpawn: the goroutine reads the buffer again instead of the
\* drained `samples`.
FlushSpawnFromBuffer ==
    /\ flPc = "spawn"
    /\ writers' = Append(writers, [samples |-> buffer,
                                   pc |-> "spawned",
                                   written |-> <<>>,
                                   err |-> FALSE])
    /\ flSamples' = <<>>
    /\ flPc' = AfterFlush
    /\ UNCHANGED pureVars
    /\ UNCHANGED <<started, semaphoreCap, semaphoreCh, wg, clientClosed,
                   buffer, bufLock, prodPc, prodCall, calls, flFinal,
                   flFinals, stopSignal, stopPc, stopErr>>

\* Mutant of FlushSpawn: the permit taken for the writer is given back by the
\* flush routine when it spawns the writer.
FlushSpawnGivingBack ==
    /\ flPc = "spawn"
    /\ writers' = Append(writers, [samples |-> flSamples,
                                   pc |-> "spawned",
                                   written |-> <<>>,
                                   err |-> FALSE])
    /\ semaphoreCh' = semaphoreCh - 1
    /\ flSamples' = <<>>
    /\ flPc' = AfterFlush
    /\ UNCHANGED pureVars
    /\ UNCHANGED <<started, semaphoreCap, wg, clientClosed,
                   buffer, bufLock, prodPc, prodCall, calls, flFinal,
                   flFinals, stopSignal, stopPc, stopErr>>

\* go func() { ... }(): the writer goroutine exists; flushMetrics returns.
FlushSpawn ==
    /\ flPc = "spawn"
    /\ writers' = Append(writers, [samples |-> flSamples,
                                   pc |-> "spawned",
                                   written |-> <<>>,
                                   err |-> FALSE])
    /\ flSamples' = <<>>
    /\ flPc' = AfterFlush
    /\ UNCHANGED pureVars
    /\ UNCHANGED <<started, semaphoreCap, semaphoreCh, wg, clientClosed,
                   buffer, bufLock, prodPc, prodCall, calls, flFinal, flFinals, stopSignal, stopPc, stopErr>>

\* ----------------------------------------------------------------- writer
\* batch := o.batchFromSamples(samples); the call of WritePoint begins.
WriterWritePoint(w) ==
    /\ writers[w].pc = "spawned"
    /\ writers' = [writers EXCEPT
                       ![w].pc = "writing",
                       ![w].written = Append(@, batchFromSamples(writers[w].samples))]
    /\ UNCHANGED pureVars
    /\ UNCHANGED <<started, semaphoreCap, semaphoreCh, wg, clientClosed,
                   buffer, bufLock, prodPc, prodCall, calls, flPc, flFinal,
                   flSamples, flFinals, stopSignal, stopPc, stopErr>>

\* Mutant of WriterWriteReturn: a failed batch is put back into the buffer.
WriterWriteReturnRequeue(w, failed) ==
    /\ writers[w].pc = "writing"
    /\ writers' = [writers EXCEPT ![w].pc = "returned", ![w].err = failed]
    /\ buffer' = IF failed THEN buffer \o writers[w].samples ELSE buffer
    /\ UNCHANGED pureVars
    /\ UNCHANGED <<started, semaphoreCap, semaphoreCh, wg, clientClosed,
                   bufLock, prodPc, prodCall, calls, flPc, flFinal, flSamples,
                   flFinals, stopSignal, stopPc, stopErr>>

\* Mutant of WriterWriteReturn: after a failed WritePoint the goroutine builds
\* the batch and calls WritePoint again.
WriterWriteReturnRetry(w, failed) ==
    /\ writers[w].pc = "writing"
    /\ writers' = [writers EXCEPT
                       ![w].pc = IF failed THEN "spawned" ELSE "returned",
                       ![w].err = failed]
    /\ UNCHANGED pureVars
    /\ UNCHANGED <<started, semaphoreCap, semaphoreCh, wg, clientClosed,
                   buffer, bufLock, prodPc, prodCall, calls, flPc, flFinal,
                   flSamples, flFinals, stopSignal, stopPc,
                   stopErr>>

\* WritePoint returns err; on err != nil the error is logged and the
\* goroutine returns, otherwise it logs the elapsed time.  The deferred
\* function runs next in both cases.
WriterWriteReturn(w, failed) ==
    /\ writers[w].pc = "writing"
    /\ writers' = [writers EXCEPT ![w].pc = "returned", ![w].err = failed]
    /\ UNCHANGED pureVars
    /\ UNCHANGED <<started, semaphoreCap, semaphoreCh, wg, clientClosed,
                   buffer, bufLock, prodPc, prodCall, calls, flPc, flFinal,
                   flSamples, flFinals, stopSignal, stopPc,
                   stopErr>>

\* Mutant of WriterRelease: a writer whose WritePoint failed leaves without
\* receiving from semaphoreCh.
WriterReleaseOnSuccessOnly(w) ==
    /\ writers[w].pc = "returned"
    /\ writers[w].err \/ semaphoreCh > 0
    /\ semaphoreCh' = IF writers[w].err THEN semaphoreCh ELSE semaphoreCh - 1
    /\ writers' = [writers EXCEPT ![w].pc = "released"]
    /\ UNCHANGED pureVars
    /\ UNCHANGED <<started, semaphoreCap, wg, clientClosed, buffer, bufLock,
                   prodPc, prodCall, calls, flPc, flFinal, flSamples, flFinals,
                   stopSignal, stopPc, stopErr>>

\* deferred: <-o.semaphoreCh
WriterRelease(w) ==
    /\ writers[w].pc = "returned"
    /\ semaphoreCh > 0
    /\ semaphoreCh' = semaphoreCh - 1
    /\ writers' = [writers EXCEPT ![w].pc = "released"]
    /\ UNCHANGED pureVars
    /\ UNCHANGED <<started, semaphoreCap, wg, clientClosed, buffer, bufLock,
                   prodPc, prodCall, calls, flPc, flFinal, flSamples, flFinals, stopSignal, stopPc, stopErr>>

\* Mutant of WriterWgDone: a writer whose WritePoint failed terminates without
\* calling o.wg.Done().
WriterWgDoneOnSuccessOnly(w) ==
    /\ writers[w].pc = "released"
    /\ wg' = IF writers[w].err THEN wg ELSE wg - 1
    /\ writers' = [writers EXCEPT ![w].pc = "done"]
    /\ UNCHANGED pureVars
    /\ UNCHANGED <<started, semaphoreCap, semaphoreCh, clientClosed, buffer,
                   bufLock, prodPc, prodCall, calls, flPc, flFinal, flSamples,
                   flFinals, stopSignal, stopPc, stopErr>>

\* deferred: o.wg.Done(); the goroutine terminates.
WriterWgDone(w) ==
    /\ writers[w].pc = "released"
    /\ wg' = wg - 1
    /\ writers' = [writers EXCEPT ![w].pc = "done"]
    /\ UNCHANGED pureVars
    /\ UNCHANGED <<started, semaphoreCap, semaphoreCh, clientClosed, buffer,
                   bufLock, prodPc, prodCall, calls, flPc, flFinal, flSamples,
                   flFinals, stopSignal, stopPc, stopErr>>

\* ------------------------------------------------------------------- Stop
\* o.periodicFlusher.Stop(), first half: close(pf.stop).
StopFlusher ==
    /\ started
    /\ stopPc = "running"
    /\ stopPc' = "flusher"
    /\ stopSignal' = TRUE
    /\ UNCHANGED pureVars
    /\ UNCHANGED <<started, semaphoreCap, semaphoreCh, wg, clientClosed,
                   buffer, bufLock, prodPc, prodCall, calls, flPc, flFinal,
                   flSamples, flFinals, writers, stopErr>>

\* Mutant of StopFlusherStopped: Stop goes on without waiting for the flusher
\* to report that it has stopped.
StopFlusherStoppedNoWait ==
    /\ stopPc = "flusher"
    /\ stopPc' = "close"
    /\ UNCHANGED pureVars
    /\ UNCHANGED <<started, semaphoreCap, semaphoreCh, wg, clientClosed,
                   buffer, bufLock, prodPc, prodCall, calls, flPc, flFinal,
                   flSamples, flFinals, stopSignal, writers, stopErr>>

\* o.periodicFlusher.Stop(), second half: <-pf.stopped.
StopFlusherStopped ==
    /\ stopPc = "flusher"
    /\ flPc = "stopped"
    /\ stopPc' = "close"
    /\ UNCHANGED pureVars
    /\ UNCHANGED <<started, semaphoreCap, semaphoreCh, wg, clientClosed,
                   buffer, bufLock, prodPc, prodCall, calls, flPc, flFinal,
                   flSamples, flFinals, stopSignal, writers, stopErr>>

\* o.client.Close()
StopClientClose ==
    /\ stopPc = "close"
    /\ clientClosed' = clientClosed + 1
    /\ stopPc' = "wait"
    /\ UNCHANGED pureVars
    /\ UNCHANGED <<started, semaphoreCap, semaphoreCh, wg, buffer, bufLock,
                   prodPc, prodCall, calls, flPc, flFinal, flSamples, flFinals, stopSignal, writers, stopErr>>

\* Mutant of StopWgWait: Stop returns without waiting for the writers.
StopWgWaitNoWait ==
    /\ stopPc = "wait"
    /\ stopPc' = "done"
    /\ stopErr' = "nil"
    /\ UNCHANGED pureVars
    /\ UNCHANGED <<started, semaphoreCap, semaphoreCh, wg, clientClosed,
                   buffer, bufLock, prodPc, prodCall, calls, flPc, flFinal,
                   flSamples, flFinals, stopSignal, writers>>

\* o.wg.Wait(); return nil
StopWgWait ==
    /\ stopPc = "wait"
    /\ wg = 0
    /\ stopPc' = "done"
    /\ stopErr' = "nil"
    /\ UNCHANGED pureVars
    /\ UNCHANGED <<started, semaphoreCap, semaphoreCh, wg, clientClosed,
                   buffer, bufLock, prodPc, prodCall, calls, flPc, flFinal,
                   flSamples, flFinals, stopSignal, writers>>

\* ------------------------------------------------------------------- Next
Next ==
    \/ Start
    \/ \E p \in Producers, sizes \in CallShapes : AddMetricSamplesLock(p, sizes)
    \/ \E p \in Producers : AddMetricSamplesAppend(p)
    \/ FlusherTick
    \/ FlusherStopCase
    \/ FlushDrain
    \/ FlushWgAdd
    \/ FlushAcquire
    \/ FlushSpawn
    \/ \E w \in 1..Len(writers) : WriterWritePoint(w)
    \/ \E w \in 1..Len(writers), failed \in BOOLEAN : WriterWriteReturn(w, failed)
    \/ \E w \in 1..Len(writers) : WriterRelease(w)
    \/ \E w \in 1..Len(writers) : WriterWgDone(w)
    \/ StopFlusher
    \/ StopFlusherStopped
    \/ StopClientClose
    \/ StopWgWait

Spec == Init /\ [][Next]_vars

\* The running output under the scheduling the runtime gives: a goroutine
\* that can take its next step takes it (the writers, with WritePoint
\* returning; the flusher inside flushMetrics; a producer holding the lock;
\* Stop once it was called), and the flusher's select, which chooses among
\* its ready cases at random, does not pass over the closed stop channel for
\* ever.  Whether and when the host calls AddMetricSamples or Stop, and when
\* the ticker fires, is left open.
Fairness ==
    /\ WF_vars(\E p \in Producers : AddMetricSamplesAppend(p))
    /\ WF_vars(FlushDrain)
    /\ WF_vars(FlushWgAdd)
    /\ WF_vars(FlushAcquire)
    /\ WF_vars(FlushSpawn)
    /\ SF_vars(FlusherStopCase)
    /\ WF_vars(\E w \in 1..Len(writers) : WriterWritePoint(w))
    /\ WF_vars(\E w \in 1..Len(writers), failed \in BOOLEAN : WriterWriteReturn(w, failed))
    /\ WF_vars(\E w \in 1..Len(writers) : WriterRelease(w))
    /\ WF_vars(\E w \in 1..Len(writers) : WriterWgDone(w))
    /\ WF_vars(StopFlusherStopped)
    /\ WF_vars(StopClientClose)
    /\ WF_vars(StopWgWait)
SpecLive == Init /\ [][Next]_vars /\ Fairness

\* The constructor alone.
NextNew == NewOutput
SpecNew == InitNew /\ [][NextNew]_vars

\* makeFieldKinds alone.
NextFieldKinds == MakeFieldKinds
SpecFieldKinds == InitFieldKinds /\ [][NextFieldKinds]_vars

\* extractTagsToValues alone.
NextExtract == ExtractTagsToValues
SpecExtract == InitExtract /\ [][NextExtract]_vars

\* batchFromSamples alone.
NextBatch ==
    \/ BatchEnter
    \/ BatchNextContainer
    \/ BatchSample
    \/ BatchReturn
SpecBatch == InitBatch /\ [][NextBatch]_vars

\* batchFromSamples in successive flush cycles on the same TagSet instances.
NextCycles ==
    \/ NextBatch
    \/ BatchAgain
SpecCycles == InitBatch /\ [][NextCycles]_vars

\* GetConsolidatedConfig alone.
NextConfig ==
    \/ Consolidate
    \/ Setenv
    \/ ConsolidateAgain
SpecConfig == InitConfig /\ [][NextConfig]_vars

\* parseURL alone.
NextURL == ParseURL
SpecURL == InitURL /\ [][NextURL]_vars

\* ============================================================== the claims
Writers == 1..Len(writers)
WritersInWrite == { w \in Writers : writers[w].pc = "writing" }
Range(f) == { f[i] : i \in DOMAIN f }
CountIn(seq, x) == Cardinality({ i \in DOMAIN seq : seq[i] = x })
SamplesOfCall(c) == Flatten(calls[c].containers)

\* Number of points carrying sample s over all WritePoint calls made so far.
Occurrences(s) ==
    SumSeq([w \in Writers |->
        SumSeq([a \in 1..Len(writers[w].written) |->
            CountIn(writers[w].written[a], s)])])
TotalPoints ==
    SumSeq([w \in Writers |->
        SumSeq([a \in 1..Len(writers[w].written) |-> Len(writers[w].written[a])])])
TotalSamples == SumSeq([c \in 1..Len(calls) |-> Len(SamplesOfCall(c))])

\* C1: with ConcurrentWrites = N, at most N writer goroutines are inside
\* pointWriter.WritePoint at any instant, in every interleaving.
C1_BoundedConcurrentWrites == Cardinality(WritersInWrite) <= semaphoreCap

\* C1 witness: N writers are inside WritePoint while a further drained batch
\* waits for a permit.
C1_Witness ==
    /\ Cardinality(WritersInWrite) = semaphoreCap
    /\ flPc = "acquire"

\* C2: when Stop has returned, every sample of an AddMetricSamples call that
\* returned before Stop was invoked is in exactly one WritePoint batch, and if
\* all calls returned before Stop the points written number the samples added.
C2_NoLossOnStop ==
    stopPc = "done" =>
        /\ \A c \in 1..Len(calls) :
              calls[c].beforeStop =>
                  \A s \in Range(SamplesOfCall(c)) : Occurrences(s) = 1
        /\ (\A c \in 1..Len(calls) : calls[c].beforeStop) =>
              TotalPoints = TotalSamples

\* C2 witness: Stop has returned after two calls with samples returned before
\* it, their samples sent in more than one request.
C2_Witness ==
    /\ stopPc = "done"
    /\ \E c, d \in 1..Len(calls) :
          /\ c # d
          /\ calls[c].beforeStop /\ calls[d].beforeStop
          /\ SamplesOfCall(c) # <<>> /\ SamplesOfCall(d) # <<>>
    /\ Len(writers) >= 2

\* C3: when Stop returns the WaitGroup counter is zero and every writer ever
\* spawned has made its write attempt, got its result and terminated.
C3_StopWaitsForWriters ==
    stopPc = "done" =>
        /\ wg = 0
        /\ flPc = "stopped"
        /\ \A w \in Writers :
              writers[w].pc = "done" /\ Len(writers[w].written) = 1

\* C3 witness: Stop has returned after as many writers ran as calls were made.
C3_Witness ==
    /\ stopPc = "done"
    /\ Len(writers) = MaxCalls

\* C4 (the claim as stated): the client is closed at most once, and only when
\* every spawned writer has completed and the WaitGroup counter is zero.
C4_CloseAfterWriters ==
    /\ clientClosed <= 1
    /\ clientClosed > 0 =>
          /\ wg = 0
          /\ \A w \in Writers : writers[w].pc = "done"

\* The flush cycles so far: one per spawned writer, and the one in progress.
Cycles ==
    [w \in Writers |-> writers[w].samples]
        \o (IF flSamples # <<>> THEN <<flSamples>> ELSE <<>>)
\* The places a sample can be in: a flush cycle or the buffer.
Places == [k \in 1..Len(Cycles) |-> Flatten(Cycles[k])] \o <<Flatten(buffer)>>
IsContiguousIn(sub, seq) ==
    \E i \in 0..(Len(seq) - Len(sub)) : SubSeq(seq, i + 1, i + Len(sub)) = sub
\* Positions in place P of the samples of call c.
PositionsOfCall(P, c) == { i \in 1..Len(P) : P[i][1] = c }
\* The samples of call c are absent from P, or all there once, adjacent and in
\* their arrival order.
WholeOrAbsent(P, c) ==
    LET pos == PositionsOfCall(P, c)
        S == SamplesOfCall(c)
    IN  pos = {} \/ \E a \in pos :
                        /\ pos = a..(a + Len(S) - 1)
                        /\ \A k \in 1..Len(S) : P[a + k - 1] = S[k]

\* C5: the samples of one AddMetricSamples call are never split or duplicated:
\* they sit, whole, contiguous and in arrival order, in exactly one place (the
\* buffer or one flush cycle) once the call returned, and nowhere before.
C5_CallInOneCycle ==
    LET P == Places
    IN  \A c \in 1..Len(calls) :
            /\ \A k \in 1..Len(P) : WholeOrAbsent(P[k], c)
            /\ Cardinality({ k \in 1..Len(P) : PositionsOfCall(P[k], c) # {} }) =
                  IF calls[c].returned /\ SamplesOfCall(c) # <<>> THEN 1 ELSE 0

\* C5 witness: one flush cycle holds the samples of two calls, one after the
\* other, and another cycle exists.
C5_Witness ==
    /\ \E k \in 1..Len(Cycles), c, d \in 1..Len(calls) :
          /\ c # d
          /\ SamplesOfCall(c) # <<>> /\ SamplesOfCall(d) # <<>>
          /\ IsContiguousIn(SamplesOfCall(c) \o SamplesOfCall(d), Flatten(Cycles[k]))
    /\ Len(Cycles) >= 2

\* C6: the SampleBuffer lock is only ever held by a producer inside
\* AddMetricSamples, whose append can run at once whatever the permits, the
\* flusher and the writers are doing: AddMetricSamples waits for nothing else.
C6_AddNeverBlocksOnDispatcher ==
    /\ \/ bufLock = Free
       \/ \E p \in Producers : bufLock = HeldBy(p) /\ prodPc[p] = "locked"
    /\ \A p \in Producers :
          prodPc[p] = "locked" => ENABLED AddMetricSamplesAppend(p)

\* C6 witness: all permits are held by writers inside WritePoint, the flusher
\* is stalled in the permit acquisition, and a producer is inside
\* AddMetricSamples.
C6_Witness ==
    /\ semaphoreCh = semaphoreCap
    /\ Cardinality(WritersInWrite) = semaphoreCap
    /\ flPc = "acquire"
    /\ stopPc = "running"
    /\ \E p \in Producers : prodPc[p] = "locked"

\* C7: Stop returns nil whatever the writers' results, and a failed write
\* only discards its batch: the batch is written once and is not buffered or
\* handed to another flush cycle again.
C7_WriteFailuresNotPropagated ==
    /\ stopPc = "done" => stopErr = "nil"
    /\ \A w \in Writers :
          writers[w].err =>
              /\ Len(writers[w].written) = 1
              /\ \A s \in Range(Flatten(writers[w].samples)) :
                    /\ Occurrences(s) = 1
                    /\ s \notin Range(Flatten(buffer))
                    /\ s \notin Range(Flatten(flSamples))

\* C7 witness: Stop has returned after one writer failed and another succeeded.
C7_Witness ==
    /\ stopPc = "done"
    /\ \E w, v \in Writers :
          /\ writers[w].err /\ Flatten(writers[w].samples) # <<>>
          /\ ~writers[v].err

\* ------------------------------------------------- claims on the constructor
\* The consolidated configuration of the parameters New was called with.
Resolved ==
    GetConsolidatedConfig(params.JSONConfig, params.Environment, params.ConfigArgument)
BucketRequired == Errorf("the Bucket option is required", <<>>)
PositiveWritesRequired ==
    Errorf("the ConcurrentWrites option must be a positive number", <<>>)
\* No layer sets a bucket: no document member, no environment key, and a URL
\* argument that is empty or only "/".
BucketUnsetEverywhere ==
    /\ params.JSONConfig.doc.bucket = Absent
    /\ EnvBucket \notin DOMAIN params.Environment
    /\ params.ConfigArgument \in { <<>>, <<"/">> }

\* C8: when the configuration resolves to an empty bucket (in particular when
\* no layer sets one, or the URL argument is only "/"), New returns no Output
\* and the error "the Bucket option is required".
C8_BucketRequired ==
    newOut.called /\ Resolved.err = NilError =>
        /\ Resolved.conf.Bucket.String = <<>> =>
              newOut.err = BucketRequired /\ newOut.isNil
        /\ BucketUnsetEverywhere =>
              newOut.err = BucketRequired /\ newOut.isNil

\* C8 witness: New was called with the URL argument "/" and no bucket in the
\* other layers, and returned the Bucket error.
C8_Witness ==
    /\ newOut.called
    /\ params.ConfigArgument = <<"/">>
    /\ BucketUnsetEverywhere
    /\ newOut.err = BucketRequired

\* C9 (the claim as stated): with a non-empty bucket New fails with the
\* ConcurrentWrites error for every resolved ConcurrentWrites <= 0 and succeeds
\* for every ConcurrentWrites >= 1.
C9_SucceedsForEveryPositive ==
    newOut.called /\ Resolved.err = NilError /\ Resolved.conf.Bucket.String # <<>> =>
        /\ Resolved.conf.ConcurrentWrites.Int64 <= 0 =>
              newOut.err = PositiveWritesRequired /\ newOut.isNil
        /\ Resolved.conf.ConcurrentWrites.Int64 >= 1 =>
              newOut.err = NilError /\ ~newOut.isNil

\* C9 (amended): with a non-empty bucket New fails with the ConcurrentWrites
\* error for every resolved ConcurrentWrites <= 0; for ConcurrentWrites >= 1 it
\* succeeds when the tags-as-fields directives make a field-kind table and
\* fails with makeFieldKinds' error otherwise; every Output constructed has a
\* semaphore channel of capacity ConcurrentWrites >= 1.
C9_PositiveConcurrentWrites ==
    /\ newOut.called /\ Resolved.err = NilError /\ Resolved.conf.Bucket.String # <<>> =>
          /\ Resolved.conf.ConcurrentWrites.Int64 <= 0 =>
                newOut.err = PositiveWritesRequired /\ newOut.isNil
          /\ Resolved.conf.ConcurrentWrites.Int64 >= 1 =>
                IF makeFieldKinds(Resolved.conf).err = NilError
                THEN newOut.err = NilError /\ ~newOut.isNil
                ELSE newOut.err = makeFieldKinds(Resolved.conf).err /\ newOut.isNil
    /\ newOut.called /\ ~newOut.isNil =>
          semaphoreCap >= 1 /\ semaphoreCap = newOut.config.ConcurrentWrites.Int64

\* C9 witness: New made an Output from a document with concurrentWrites "2"
\* and a directive list of its own.
C9_Witness ==
    /\ newOut.called
    /\ ~newOut.isNil
    /\ params.JSONConfig.doc.concurrentWrites = JSONString(<<"2">>)
    /\ params.JSONConfig.doc.tagsAsFields # Absent
    /\ semaphoreCap = 2

\* ------------------------------------------------ claims on makeFieldKinds
\* The name and the kind text of a directive, read off its first colon.
EntryName(d) == IF \E i \in 1..Len(d) : d[i] = ":"
                THEN SubSeq(d, 1, (CHOOSE i \in 1..Len(d) :
                                      d[i] = ":" /\ \A j \in 1..(i - 1) : d[j] # ":") - 1)
                ELSE d
EntryKind(d) == IF \E i \in 1..Len(d) : d[i] = ":"
                THEN SubSeq(d, (CHOOSE i \in 1..Len(d) :
                                   d[i] = ":" /\ \A j \in 1..(i - 1) : d[j] # ":") + 1, Len(d))
                ELSE <<"s", "t", "r", "i", "n", "g">>
KindNamed(text) ==
    CASE text = <<"s", "t", "r", "i", "n", "g">> -> String
      [] text = <<"b", "o", "o", "l">> -> Bool
      [] text = <<"f", "l", "o", "a", "t">> -> Float
      [] text = <<"i", "n", "t">> -> IntKind
KindTexts == { <<"s", "t", "r", "i", "n", "g">>, <<"b", "o", "o", "l">>, <<"f", "l", "o", "a", "t">>, <<"i", "n", "t">> }

\* C10: makeFieldKinds fails exactly when a name occurs twice or a kind is not
\* one of string, bool, float, int; on success the table maps the name of
\* every directive, and nothing else, to its declared kind (String when the
\* directive has no colon), each name coming from exactly one directive.
C10_FieldKindTable ==
    fieldKindsOut.called =>
        LET n == Len(tagsAsFields)
            distinct == \A i, j \in 1..n :
                            i # j => EntryName(tagsAsFields[i]) # EntryName(tagsAsFields[j])
            known == \A i \in 1..n : EntryKind(tagsAsFields[i]) \in KindTexts
        IN  /\ fieldKindsOut.err = NilError <=> (distinct /\ known)
            /\ fieldKindsOut.err # NilError => fieldKindsOut.isNil
            /\ fieldKindsOut.err = NilError =>
                  /\ ~fieldKindsOut.isNil
                  /\ DOMAIN fieldKindsOut.fieldKinds =
                        { EntryName(tagsAsFields[i]) : i \in 1..n }
                  /\ Cardinality(DOMAIN fieldKindsOut.fieldKinds) = n
                  /\ \A i \in 1..n :
                        fieldKindsOut.fieldKinds[EntryName(tagsAsFields[i])] =
                            KindNamed(EntryKind(tagsAsFields[i]))

\* C10 witness: a table built from three directives, one of them "iter;bool".
C10_Witness ==
    /\ fieldKindsOut.called
    /\ fieldKindsOut.err = NilError
    /\ Len(tagsAsFields) = 3
    /\ <<"i", "t", "e", "r", ";", "b", "o", "o", "l">> \in DOMAIN fieldKindsOut.fieldKinds
    /\ \E name \in DOMAIN fieldKindsOut.fieldKinds :
          fieldKindsOut.fieldKinds[name] # String

\* ------------------------------------------- claims on extractTagsToValues
\* The Go type a field of the declared kind holds.
TypeOfKind(kind) ==
    CASE kind = String -> "string" [] kind = Bool -> "bool"
      [] kind = Float -> "float64" [] kind = IntKind -> "int64"
\* The value of the tag parses to the declared kind.
Parses(kind, val) == convert(kind, val).err = NilError

\* C11: after extractTagsToValues every tag named in the field-kind table is
\* gone from the tags map and present in the values map, holding, when its
\* text parses, the parsed value of the declared kind (the text itself for
\* String); every other tag is still in the tags map with its value and is
\* not in the values map; nothing else is in either map.
C11_FieldPromotion ==
    extraction.called =>
        /\ \A name \in DOMAIN extraction.given \cap DOMAIN extraction.fieldKinds :
              /\ name \notin DOMAIN extraction.tags
              /\ name \in DOMAIN extraction.values
              /\ Parses(extraction.fieldKinds[name], extraction.given[name]) =>
                    /\ extraction.values[name].t = TypeOfKind(extraction.fieldKinds[name])
                    /\ extraction.values[name] =
                          convert(extraction.fieldKinds[name], extraction.given[name]).v
              /\ extraction.fieldKinds[name] = String =>
                    extraction.values[name] = GoString(extraction.given[name])
        /\ \A name \in DOMAIN extraction.given \ DOMAIN extraction.fieldKinds :
              /\ name \in DOMAIN extraction.tags
              /\ extraction.tags[name] = extraction.given[name]
              /\ name \notin DOMAIN extraction.values
        /\ DOMAIN extraction.tags \subseteq DOMAIN extraction.given
        /\ DOMAIN extraction.values \subseteq DOMAIN extraction.given

\* C11 witness: tag a = "12345" was promoted to the int64 12345 and tag
\* b = "3.140", not in the table, stayed a tag.
C11_Witness ==
    /\ extraction.called
    /\ <<"a">> \in DOMAIN extraction.given
    /\ <<"b">> \in DOMAIN extraction.given
    /\ extraction.given[<<"b">>] = <<"3", ".", "1", "4", "0">>
    /\ DOMAIN extraction.fieldKinds = { <<"a">> }
    /\ extraction.fieldKinds[<<"a">>] = IntKind
    /\ extraction.values = (<<"a">> :> GoInt64(<<"1", "2", "3", "4", "5">>))
    /\ extraction.tags = (<<"b">> :> <<"3", ".", "1", "4", "0">>)

\* --------------------------------------------- claims on batchFromSamples
\* The samples handed to batchFromSamples, in arrival order.
BatchSamples == Flatten(batchIn.containers)
\* The tag map of the TagSet of sample k.
TagsOfSample(k) == batchIn.tagSets[BatchSamples[k].Tags]
\* The promoted tags of sample k whose text does not parse to the declared kind.
Malformed(k) ==
    { name \in DOMAIN TagsOfSample(k) \cap DOMAIN batchIn.fieldKinds :
        ~Parses(batchIn.fieldKinds[name], TagsOfSample(k)[name]) }

\* C12 (the claim as stated): batchFromSamples returns one point per sample,
\* and for every promoted tag whose value does not parse to its declared kind
\* the point has the field with the raw text and does not have the tag.
C12_RawStringWritten ==
    batch.pc = "returned" =>
        /\ Len(batch.points) = Len(BatchSamples)
        /\ \A k \in 1..Len(BatchSamples) : \A name \in Malformed(k) :
              /\ name \notin DOMAIN batch.points[k].tags
              /\ name \in DOMAIN batch.points[k].fields
              /\ batch.points[k].fields[name] = GoString(TagsOfSample(k)[name])

\* C12 (amended): batchFromSamples has no failing path and returns one point
\* per sample; for every promoted tag whose value does not parse to its
\* declared kind the point does not have the tag and has the field, holding
\* the raw text, except for a tag named "value", whose field holds the
\* sample's value.
C12_MalformedValue ==
    /\ batch.pc \in { "idle", "loop", "returned" }
    /\ batch.pc = "returned" =>
          /\ Len(batch.points) = Len(BatchSamples)
          /\ \A k \in 1..Len(BatchSamples) : \A name \in Malformed(k) :
                /\ name \notin DOMAIN batch.points[k].tags
                /\ name \in DOMAIN batch.points[k].fields
                /\ batch.points[k].fields[name] =
                      IF name = ValueKey THEN BatchSamples[k].Value
                      ELSE GoString(TagsOfSample(k)[name])

\* C12 witness: a batch was built in which tag a = "x", declared int, became
\* the string field "x" of the first point, and the last point holds a
\* parsed int.
C12_Witness ==
    /\ batch.pc = "returned"
    /\ <<"a">> \in DOMAIN batchIn.fieldKinds
    /\ batchIn.fieldKinds[<<"a">>] = IntKind
    /\ <<"a">> \in Malformed(1)
    /\ batch.points[1].fields[<<"a">>] = GoString(<<"x">>)
    /\ <<"a">> \in DOMAIN batch.points[Len(batch.points)].fields
    /\ batch.points[Len(batch.points)].fields[<<"a">>] = GoInt64(<<"1">>)

\* --------------------------------------------- claims on the configuration
\* The three overlays as their layers give them, and the defaults below them.
LayerDoc == IF params.JSONConfig = NoJSON THEN ZeroConfig
            ELSE parseJSON(params.JSONConfig.doc).conf
LayerEnv == envconfigProcess(params.Environment).conf
LayerURL == IF params.ConfigArgument = <<>> THEN ZeroConfig
            ELSE parseURL(params.ConfigArgument).conf
Layers == <<NewConfig, LayerDoc, LayerEnv, LayerURL>>
Options == DOMAIN ZeroConfig
\* The layer sets the option.
IsSet(layer, option) ==
    IF option = "TagsAsFields" THEN Len(layer.TagsAsFields) > 0
    ELSE layer[option].Valid
\* The highest layer that sets the option: 1 (the defaults) when none does.
Highest(option) ==
    CHOOSE i \in 1..4 :
        /\ i = 1 \/ IsSet(Layers[i], option)
        /\ \A j \in (i + 1)..4 : ~IsSet(Layers[j], option)

\* C13: when GetConsolidatedConfig succeeds, every option has the value of
\* the highest layer that sets it, in the order defaults, JSON document,
\* environment, URL argument; the URL argument sets nothing but Addr and
\* Bucket, so every other option set in the environment keeps that value.
C13_Precedence ==
    consolidated.called /\ consolidated.err = NilError =>
        /\ \A option \in Options :
              consolidated.conf[option] = Layers[Highest(option)][option]
        /\ \A option \in Options \ { "Addr", "Bucket" } : ~IsSet(LayerURL, option)
        /\ EnvToken \in DOMAIN params.Environment =>
              consolidated.conf.Token = StringFrom(params.Environment[EnvToken])
        /\ IsSet(LayerURL, "Addr") => consolidated.conf.Addr = LayerURL.Addr
        /\ IsSet(LayerURL, "Bucket") => consolidated.conf.Bucket = LayerURL.Bucket

\* C13 witness: every layer sets addr and bucket, the document and the
\* environment set the token; the URL wins for addr and bucket, the
\* environment for the token and the tags.
C13_Witness ==
    /\ consolidated.called
    /\ consolidated.err = NilError
    /\ params.ConfigArgument = <<"h", "t", "t", "p", ":", "/", "/", "h", "/", "b", "u">>
    /\ IsSet(LayerDoc, "Addr") /\ IsSet(LayerDoc, "Bucket") /\ IsSet(LayerDoc, "Token")
    /\ IsSet(LayerDoc, "TagsAsFields")
    /\ IsSet(LayerEnv, "Addr") /\ IsSet(LayerEnv, "Bucket") /\ IsSet(LayerEnv, "Token")
    /\ IsSet(LayerEnv, "TagsAsFields")
    /\ consolidated.conf.Addr = StringFrom(<<"h", "t", "t", "p", ":", "/", "/", "h">>)
    /\ consolidated.conf.Bucket = StringFrom(<<"b", "u">>)
    /\ consolidated.conf.Token = StringFrom(<<"t", "e">>)
    /\ consolidated.conf.TagsAsFields = <<<<"x">>, <<"y">>>>
    /\ consolidated.conf.ConcurrentWrites = IntFrom(1)
    /\ consolidated.conf.PushInterval = NewConfig.PushInterval

\* --------------------------------------------------------- claims on parseURL
\* The path without its single leading slash.
PathRemainder(path) == IF path # <<>> /\ Head(path) = "/" THEN Tail(path) ELSE path
Unset == NewString(<<>>, FALSE)

\* C14: parseURL succeeds on a URL made of a scheme, a host and a path; Addr
\* is set, to "<scheme>://<host>" with the scheme in lower case, exactly when
\* the host is not empty; Bucket is set, to the path without its single
\* leading slash, exactly when that remainder is not empty; every other
\* option is unset; the empty text sets nothing.
C14_ParseURL ==
    parsedURL.called =>
        /\ parsedURL.err = NilError
        /\ parsedURL.conf.Addr =
              IF parsedURL.host # <<>>
              THEN StringFrom(ToLower(parsedURL.scheme) \o <<":", "/", "/">> \o parsedURL.host)
              ELSE Unset
        /\ parsedURL.conf.Bucket =
              IF PathRemainder(parsedURL.path) # <<>>
              THEN StringFrom(PathRemainder(parsedURL.path))
              ELSE Unset
        /\ \A option \in DOMAIN ZeroConfig \ { "Addr", "Bucket" } :
              parsedURL.conf[option] = ZeroConfig[option]
        /\ parsedURL.text = <<>> => parsedURL.conf = ZeroConfig

\* C14 witness: "http://localhost:8086/dbname/retention" gave the address
\* and the bucket "dbname/retention".
C14_Witness ==
    /\ parsedURL.called
    /\ parsedURL.text = <<"h", "t", "t", "p", ":", "/", "/", "l", "o", "c", "a", "l", "h", "o", "s", "t", ":", "8", "0", "8", "6", "/", "d", "b", "n", "a", "m", "e", "/", "r", "e", "t", "e", "n", "t", "i", "o", "n">>
    /\ parsedURL.conf.Addr = StringFrom(<<"h", "t", "t", "p", ":", "/", "/", "l", "o", "c", "a", "l", "h", "o", "s", "t", ":", "8", "0", "8", "6">>)
    /\ parsedURL.conf.Bucket = StringFrom(<<"d", "b", "n", "a", "m", "e", "/", "r", "e", "t", "e", "n", "t", "i", "o", "n">>)

\* ------------------------------------- claims on the points of a batch
\* C15: every point batchFromSamples has built so far has a fields map that
\* is not empty and binds "value" to the value of the sample it was built
\* from, whatever the tags, the field-kind table and the cache hold.
C15_ValueField ==
    \A k \in 1..Len(batch.points) :
        /\ DOMAIN batch.points[k].fields # {}
        /\ ValueKey \in DOMAIN batch.points[k].fields
        /\ batch.points[k].fields[ValueKey] = BatchSamples[k].Value

\* C15 witness: three samples share one TagSet whose tag "value" is promoted;
\* the three points were built, the last two from the cache.
C15_Witness ==
    /\ batch.pc = "returned"
    /\ Len(batch.points) >= 3
    /\ \A k \in 1..Len(BatchSamples) : BatchSamples[k].Tags = 1
    /\ ValueKey \in DOMAIN batchIn.fieldKinds
    /\ ValueKey \in DOMAIN batchIn.tagSets[1]
    /\ batch.points[3].fields[ValueKey] = BatchSamples[3].Value
    /\ batch.points[3].fields[ValueKey] # batch.points[1].fields[ValueKey]

\* The point of sample k as the samples and the table determine it: the tags
\* outside the table, the promoted tags as fields, and the sample's value.
ExpectedPoint(k) ==
    LET tags == TagsOfSample(k)
        kinds == batchIn.fieldKinds
        promoted == DOMAIN tags \cap DOMAIN kinds
    IN  [measurement |-> BatchSamples[k].Metric.Name,
         tags |-> [name \in DOMAIN tags \ promoted |-> tags[name]],
         fields |-> [name \in promoted \cup { ValueKey } |->
                        IF name = ValueKey THEN BatchSamples[k].Value
                        ELSE IF Parses(kinds[name], tags[name])
                        THEN convert(kinds[name], tags[name]).v
                        ELSE GoString(tags[name])],
         ts |-> BatchSamples[k].Time]

\* C16: batchFromSamples appends one point per sample in arrival order
\* (container order, then sample order); the point has the sample's metric
\* name and time; the points are determined by the containers and the
\* field-kind table alone, whatever order the range over the table takes.
C16_OnePointPerSample ==
    /\ Len(batch.points) <= Len(BatchSamples)
    /\ batch.pc = "loop" /\ batch.container <= Len(batchIn.containers) =>
          Len(batch.points) =
              SumSeq([j \in 1..(batch.container - 1) |-> Len(batchIn.containers[j])])
              + batch.sample - 1
    /\ batch.pc = "returned" => Len(batch.points) = Len(BatchSamples)
    /\ \A k \in 1..Len(batch.points) :
          /\ batch.points[k].measurement = BatchSamples[k].Metric.Name
          /\ batch.points[k].ts = BatchSamples[k].Time
          /\ batch.points[k] = ExpectedPoint(k)

\* C16 witness: a batch of several containers, one of them empty, with
\* samples of two TagSets, was built to the end.
C16_Witness ==
    /\ batch.pc = "returned"
    /\ Len(batchIn.containers) = 3
    /\ batchIn.containers[2] = <<>>
    /\ { BatchSamples[k].Tags : k \in 1..Len(BatchSamples) } = TagSetPointers
    /\ batchIn.fieldKinds # EmptyFieldKinds
    /\ Len(batch.points) = Len(BatchSamples)
    /\ batch.points[2].measurement = "n"
    /\ batch.points[2].ts = 102

\* ------------------------------------------- claims on the flusher's stop
\* The writers that were spawned and have not run wg.Done yet.
WritersNotDone == { w \in 1..Len(writers) : writers[w].pc # "done" }

\* The flusher is outside flushMetrics.
FlusherOutsideFlush == flPc \in {"none", "select", "stopped"}

\* State part of C17: the stop case of the flusher is taken at most once and
\* only after the stop signal; the flusher has stopped only after that one
\* flush returned, with the drained samples handed to a spawned writer; Stop
\* is past periodicFlusher.Stop() only when the flusher has stopped.
C17_FinalFlushState ==
    /\ flFinals <= 1
    /\ flFinals = 1 => stopSignal
    /\ flPc = "stopped" =>
          /\ flFinals = 1
          /\ flFinal
          /\ flSamples = <<>>
          /\ wg = Cardinality(WritersNotDone)
    /\ stopPc \in {"close", "wait", "done"} => flPc = "stopped"

\* Step part of C17: once the flusher has stopped, no step drains the buffer,
\* takes a permit, adds to the WaitGroup or spawns a writer.
C17_NoFlushAfterStopped ==
    flPc = "stopped" =>
        /\ flPc' = "stopped"
        /\ flFinals' = flFinals
        /\ flSamples' = flSamples
        /\ Len(writers') = Len(writers)
        /\ Len(buffer') >= Len(buffer)
        /\ wg' <= wg
        /\ semaphoreCh' <= semaphoreCh

\* C17: on Stop the flusher runs the stop case's flush exactly once and then
\* terminates; that flush has returned, its permit taken and its writer
\* spawned, before Stop goes on to client.Close() and wg.Wait(); no flush
\* runs after it.
C17_OneFinalFlush == []C17_FinalFlushState /\ [][C17_NoFlushAfterStopped]_vars

\* C17 witness: Stop is waiting in wg.Wait(); a call that returned after the
\* stop signal was drained and its writer, the last one, is spawned and has
\* not started to write.
C17_Witness ==
    /\ stopPc = "wait"
    /\ flPc = "stopped"
    /\ flFinals = 1
    /\ Len(writers) >= 2
    /\ writers[Len(writers)].pc = "spawned"
    /\ \E c \in 1..Len(calls) :
          /\ calls[c].returned
          /\ ~calls[c].beforeStop
          /\ calls[c].containers # <<>>
          /\ \E i \in 1..Len(writers[Len(writers)].samples) :
                writers[Len(writers)].samples[i] = calls[c].containers[1]

\* ------------------------------------------ claims on the writers' permits
\* The writers that have not yet received from semaphoreCh in their deferred
\* function.
WritersHoldingPermit ==
    { w \in 1..Len(writers) : writers[w].pc \in {"spawned", "writing", "returned"} }

\* The permit the flush routine holds between its send on semaphoreCh and the
\* go statement.
PendingSpawn == IF flPc = "spawn" THEN 1 ELSE 0

\* C18 (the claim as stated): the writers that were spawned and have not
\* terminated are never more than ConcurrentWrites.
C18_BoundedLiveWriters == Cardinality(WritersNotDone) <= semaphoreCap

\* C18 (amended): the permits in semaphoreCh are exactly those of the writers
\* that have not yet run the receive of their deferred function, plus the one
\* of a pending spawn, and are never more than ConcurrentWrites; a writer
\* that has released its permit and has not yet run wg.Done is not bounded by
\* the permits.
C18_BoundedPermitHolders ==
    /\ Cardinality(WritersHoldingPermit) + PendingSpawn = semaphoreCh
    /\ semaphoreCh <= semaphoreCap

\* C18 witness: every permit is held by a writer while one more writer, which
\* has given its permit back, has not yet run wg.Done.
C18_Witness ==
    /\ Cardinality(WritersHoldingPermit) = semaphoreCap
    /\ \E w \in 1..Len(writers) : writers[w].pc = "released"
    /\ Cardinality(WritersNotDone) = semaphoreCap + 1

\* ------------------------------------------- claims on the write of a cycle
\* The samples the producers have passed so far.
SamplesAdded == UNION { Range(SamplesOfCall(c)) : c \in 1..Len(calls) }

\* State part of C19: the flush routine holds drained samples exactly while it
\* is between the drain and the go statement; every writer was spawned for a
\* drain that was not empty; a writer has called WritePoint once as soon as it
\* is past the call, with the points of all samples of its cycle, and not
\* before; no sample is in more than one point over all the calls made.
C19_OneWriteState ==
    /\ flSamples # <<>> <=> flPc \in {"add", "acquire", "spawn"}
    /\ \A w \in Writers :
          /\ writers[w].samples # <<>>
          /\ Len(writers[w].written) = IF writers[w].pc = "spawned" THEN 0 ELSE 1
          /\ writers[w].pc # "spawned" =>
                writers[w].written[1] = batchFromSamples(writers[w].samples)
          /\ writers[w].err => writers[w].pc \in {"returned", "released", "done"}
    /\ \A s \in SamplesAdded : Occurrences(s) <= 1

\* Step part of C19: a drain that finds samples takes the whole buffer as one
\* cycle; a step adds at most one writer, and that writer gets the whole
\* cycle from the flush routine, which then holds nothing; a writer past
\* WritePoint, failed or not, never calls it again, and a failure puts
\* nothing back into the buffer.
C19_OneWriteStep ==
    /\ flSamples' # flSamples /\ flSamples' # <<>> =>
          /\ flSamples = <<>>
          /\ flSamples' = buffer
          /\ buffer' = <<>>
    /\ Len(writers') # Len(writers) =>
          /\ flPc = "spawn"
          /\ flSamples # <<>>
          /\ flSamples' = <<>>
          /\ Len(writers') = Len(writers) + 1
          /\ writers'[Len(writers')].samples = flSamples
          /\ SubSeq(writers', 1, Len(writers)) = writers
    /\ \A w \in Writers :
          /\ writers'[w].samples = writers[w].samples
          /\ writers[w].pc \in {"returned", "released", "done"} =>
                /\ writers'[w].written = writers[w].written
                /\ writers'[w].pc \in {"returned", "released", "done"}
                /\ writers'[w].err = writers[w].err
          /\ writers'[w].err /\ ~writers[w].err => buffer' = buffer

\* C19: each flush cycle that drained something spawns exactly one writer;
\* the writer calls WritePoint exactly once with the points of the whole
\* cycle; after an error it does not call it again and the batch is dropped;
\* no sample is passed to WritePoint twice.
C19_OneWritePerCycle == []C19_OneWriteState /\ [][C19_OneWriteStep]_vars

\* C19 witness: a writer whose WritePoint failed has terminated after its one
\* call with the three points of its cycle; another writer succeeded; nothing
\* is left in the buffer or in the flush routine.
C19_Witness ==
    /\ buffer = <<>>
    /\ flSamples = <<>>
    /\ \E w, v \in Writers :
          /\ writers[w].err
          /\ writers[w].pc = "done"
          /\ Len(writers[w].written) = 1
          /\ Len(writers[w].written[1]) >= 3
          /\ ~writers[v].err
          /\ writers[v].pc = "done"
          /\ Len(writers[v].written[1]) >= 3

\* ------------------------------------ claims on the release of the permits
\* The wg.Add(1) of a flush whose writer is not spawned yet.
PendingAdd == IF flPc \in {"acquire", "spawn"} THEN 1 ELSE 0

\* State part of C20: the permits in semaphoreCh are those of the writers
\* that have not run their receive and of a pending spawn; the WaitGroup
\* counts the writers that have not run Done and a pending Add; so with every
\* writer terminated and the flusher outside flushMetrics no permit is held
\* and the WaitGroup is at zero.
C20_NoLeakState ==
    /\ semaphoreCh = Cardinality(WritersHoldingPermit) + PendingSpawn
    /\ wg = Cardinality(WritersNotDone) + PendingAdd
    /\ (WritersNotDone = {} /\ FlusherOutsideFlush) => semaphoreCh = 0 /\ wg = 0

\* Step part of C20: a writer, failed or not, goes from the return of
\* WritePoint to the receive and from the receive to Done and nowhere else;
\* semaphoreCh loses a permit only in the receive of one writer and the
\* WaitGroup is decremented only in the Done of one writer, by one.
C20_ReleaseOnceStep ==
    /\ \A w \in Writers :
          /\ writers[w].pc = "returned" => writers'[w].pc \in {"returned", "released"}
          /\ writers[w].pc = "released" => writers'[w].pc \in {"released", "done"}
          /\ writers[w].pc = "done" => writers'[w].pc = "done"
          /\ writers'[w].pc = "released" /\ writers[w].pc # "released" =>
                writers[w].pc = "returned" /\ semaphoreCh' = semaphoreCh - 1
          /\ writers'[w].pc = "done" /\ writers[w].pc # "done" =>
                writers[w].pc = "released" /\ wg' = wg - 1
    /\ semaphoreCh' < semaphoreCh =>
          /\ semaphoreCh' = semaphoreCh - 1
          /\ Cardinality({ w \in Writers : writers[w].pc = "returned"
                                            /\ writers'[w].pc = "released" }) = 1
    /\ wg' < wg =>
          /\ wg' = wg - 1
          /\ Cardinality({ w \in Writers : writers[w].pc = "released"
                                            /\ writers'[w].pc = "done" }) = 1

\* C20: every spawned writer gives its permit back exactly once and calls
\* wg.Done exactly once, after a successful and after a failed WritePoint
\* alike; whenever no writer is running and no flush is in progress no
\* permit is held and the WaitGroup counter is zero.
C20_NoPermitLeak == []C20_NoLeakState /\ [][C20_ReleaseOnceStep]_vars

\* C20 witness: Stop has not been called; two writers, one whose WritePoint
\* failed and one whose WritePoint succeeded, have terminated, the flusher
\* waits for its next tick, and no permit is held.
C20_Witness ==
    /\ stopPc = "running"
    /\ flPc = "select"
    /\ Len(writers) >= 2
    /\ WritersNotDone = {}
    /\ \E w, v \in Writers : writers[w].err /\ ~writers[v].err
    /\ semaphoreCh = 0
    /\ wg = 0

\* ------------------------------------------------ claims on an empty flush
\* The step in which flushMetrics drains an empty buffer.
EmptyDrainStep == flPc = "drain" /\ buffer = <<>> /\ flPc' # "drain"

\* The step C21 requires of an empty drain: flushMetrics returns at once to
\* the flusher; no permit is taken, the WaitGroup is not touched, no writer
\* is spawned or moved (so no WritePoint call is made) and nothing is kept as
\* drained.
C21_EmptyDrainReturns ==
    EmptyDrainStep =>
        /\ flPc' = AfterFlush
        /\ semaphoreCh' = semaphoreCh
        /\ wg' = wg
        /\ writers' = writers
        /\ flSamples' = <<>>
        /\ buffer' = <<>>

\* The step in which flushMetrics drains a buffer that holds no sample: no
\* container, or containers that are all empty.
NoSampleDrainStep == flPc = "drain" /\ Flatten(buffer) = <<>> /\ flPc' # "drain"

\* The same requirement for a drain that returns no sample.
C21_NoSampleDrainReturns ==
    NoSampleDrainStep =>
        /\ flPc' = AfterFlush
        /\ semaphoreCh' = semaphoreCh
        /\ wg' = wg
        /\ writers' = writers
        /\ flSamples' = <<>>

FlushBlocked == flPc = "acquire" /\ semaphoreCh = semaphoreCap

\* seq is a prefix of longer.
IsPrefix(seq, longer) ==
    Len(seq) <= Len(longer) /\ SubSeq(longer, 1, Len(seq)) = seq

\* Step part of C22: while the flush routine is stalled it keeps what it
\* drained and stays where it is; no writer is spawned, nothing is drained,
\* and what producers add goes to the end of the buffer.  When it leaves the
\* acquisition it still holds what it drained, and the writer it spawns gets
\* exactly that.
C22_BlockedStep ==
    /\ FlushBlocked =>
          /\ flSamples # <<>>
          /\ flPc' = "acquire"
          /\ flSamples' = flSamples
          /\ Len(writers') = Len(writers)
          /\ IsPrefix(buffer, buffer')
    /\ flPc = "acquire" /\ flPc' # "acquire" =>
          /\ flPc' = "spawn"
          /\ semaphoreCh < semaphoreCap
          /\ flSamples' = flSamples
    /\ flPc = "spawn" /\ flPc' # "spawn" =>
          /\ Len(writers') = Len(writers) + 1
          /\ writers'[Len(writers')].samples = flSamples

\* The writer number n has returned from its one WritePoint call.
Written(n) ==
    /\ Len(writers) >= n
    /\ writers[n].pc \in {"returned", "released", "done"}
    /\ writers[n].written = <<batchFromSamples(writers[n].samples)>>

\* C22: with every permit held the flush routine blocks in the acquisition
\* and keeps the drained batch; nothing more is drained while it is blocked
\* and new samples pile up in the buffer; when a writer gives a permit back
\* the flush goes on, and its batch, that of the next writer to be spawned,
\* is eventually written, WritePoint calls terminating.
C22_BackpressureNoLoss ==
    /\ [][C22_BlockedStep]_vars
    /\ \A n \in 1..MaxCalls :
          (FlushBlocked /\ Len(writers) = n - 1) ~> Written(n)

\* C22 witness: the flush routine is stalled with a drained batch, every
\* permit is with a writer, and samples added since wait in the buffer.
C22_Witness ==
    /\ FlushBlocked
    /\ flSamples # <<>>
    /\ Cardinality(WritersHoldingPermit) = semaphoreCap
    /\ Flatten(buffer) # <<>>

\* ------------------------------------- claims on the single flush context
\* The statements of flushMetrics the flusher can be at, in program order.
FlushPcs == <<"drain", "add", "acquire", "spawn">>
InsideFlush == flPc \in Range(FlushPcs)
\* Where an invocation at statement pc may be after one step.
FlushSuccessors(pc) ==
    CASE pc = "drain" -> {"drain", "add", AfterFlush}
      [] pc = "add" -> {"add", "acquire"}
      [] pc = "acquire" -> {"acquire", "spawn"}
      [] pc = "spawn" -> {"spawn", AfterFlush}

\* State part of C23: the WaitGroup and the permits exceed the writers that
\* account for them by at most the one Add and the one permit of a single
\* invocation; drained samples are held only inside that invocation.
C23_OneInvocationState ==
    /\ wg - Cardinality(WritersNotDone) \in {0, 1}
    /\ semaphoreCh - Cardinality(WritersHoldingPermit) \in {0, 1}
    /\ wg - Cardinality(WritersNotDone) = 1 <=> flPc \in {"acquire", "spawn"}
    /\ flSamples # <<>> => InsideFlush

\* Step part of C23: flushMetrics is entered, by a tick or by the stop case,
\* only from the flusher's select, that is after the previous invocation
\* returned; an invocation runs its statements in order to its return, and
\* the flag that tells the final flush from a tick's is not touched meanwhile.
C23_OneInvocationStep ==
    /\ flPc # "drain" /\ flPc' = "drain" => flPc = "select"
    /\ InsideFlush =>
          /\ flPc' \in FlushSuccessors(flPc)
          /\ flFinal' = flFinal
          /\ flFinals' = flFinals

\* C23: flushMetrics is run by the flusher's goroutine only, one invocation
\* after the other: two ticks, or a tick and the final flush of Stop, never
\* overlap, so at most one drained batch waits for a permit.
C23_SingleFlushContext == []C23_OneInvocationState /\ [][C23_OneInvocationStep]_vars

\* C23 witness: Stop has closed the stop channel while a tick's flush is
\* stalled in the permit acquisition; the final flush has not begun.
C23_Witness ==
    /\ FlushBlocked
    /\ ~flFinal
    /\ stopSignal
    /\ stopPc = "flusher"
    /\ flFinals = 0
    /\ wg - Cardinality(WritersNotDone) = 1

\* ------------------------------------------------ claims on the TagSet cache
\* What extractTagsToValues makes of TagSet ts on its own, the range over
\* the field-kind table taken in the given order.
Derived(ts, order) ==
    extractTagsToValues(batchIn.fieldKinds, order, batchIn.tagSets[ts], EmptyMap)

\* The point of sample k built without a cache: clone, extract, set "value".
UncachedPoint(k, order) ==
    Only({ NewPoint(BatchSamples[k].Metric.Name, r.tags,
                    MapPut(r.values, ValueKey, BatchSamples[k].Value),
                    BatchSamples[k].Time) :
           r \in { Derived(BatchSamples[k].Tags, order) } })

\* The points built so far are those the uncached construction gives, in
\* the same order.
PointsAsUncached ==
    \A k \in 1..Len(batch.points) : \A order \in Orders(batchIn.fieldKinds) :
        batch.points[k] = UncachedPoint(k, order)

\* The TagSets of the samples visited so far, and the first sample of each.
VisitedTagSets == { BatchSamples[k].Tags : k \in 1..Len(batch.points) }
FirstWith(ts) ==
    CHOOSE k \in 1..Len(BatchSamples) :
        /\ BatchSamples[k].Tags = ts
        /\ \A j \in 1..(k - 1) : BatchSamples[j].Tags # ts

\* C24 (the claim as stated): the points equal those built without the cache,
\* and a cache item holds the tags and the promoted fields derived from its
\* TagSet and nothing of any sample: no write of a point's "value" reaches
\* the cached fields.
C24_CachedFieldsUntouched ==
    /\ PointsAsUncached
    /\ \A ts \in DOMAIN batch.cache : \A order \in Orders(batchIn.fieldKinds) :
          \E r \in { Derived(ts, order) } :
              /\ batch.cache[ts].tags = r.tags
              /\ batch.cache[ts].values = r.values

\* C24 (amended): the points equal those built without the cache; the cache
\* holds one item per TagSet visited; its tags map is the derived one and
\* stays so; its values map is the fields map of the first sample of that
\* TagSet, that is the derived promoted fields with that sample's "value",
\* and stays so: the values of later samples are written to copies.
C24_MemoizationTransparent ==
    /\ PointsAsUncached
    /\ batch.pc # "idle" => DOMAIN batch.cache = VisitedTagSets
    /\ \A ts \in DOMAIN batch.cache : \A order \in Orders(batchIn.fieldKinds) :
          \E r \in { Derived(ts, order) } :
              /\ batch.cache[ts].tags = r.tags
              /\ batch.cache[ts].values =
                    MapPut(r.values, ValueKey, BatchSamples[FirstWith(ts)].Value)

\* C24 witness: the first and the third sample share a TagSet with a promoted
\* and an unpromoted tag, the second has the other TagSet; the third point
\* was built from the cache and the batch returned.
C24_Witness ==
    /\ batch.pc = "returned"
    /\ Len(batch.points) = 3
    /\ BatchSamples[1].Tags = BatchSamples[3].Tags
    /\ BatchSamples[2].Tags # BatchSamples[1].Tags
    /\ DOMAIN batch.cache = TagSetPointers
    /\ DOMAIN TagsOfSample(3) = BatchTagNames
    /\ DOMAIN batchIn.fieldKinds = { <<"a">> }
    /\ DOMAIN batch.points[3].tags = { ValueKey }
    /\ batch.points[3].fields[ValueKey] # batch.cache[BatchSamples[3].Tags].values[ValueKey]

\* ------------------------------------------ claims on the environment layer
\* The environment variable that sets each option the environment can set.
EnvKeyOf ==
    [Addr |-> EnvAddr, Bucket |-> EnvBucket, Token |-> EnvToken,
     ConcurrentWrites |-> EnvConcurrentWrites, TagsAsFields |-> EnvTagsAsFields]

\* The configuration envconfig.Process fills for the call, in the process
\* environment of the current state.
EnvLayer == envconfigProcess(envLookup(params.Environment)).conf

Stopping == stopPc \in {"flusher", "close", "wait"}

\* C26: Stop terminates.  From every state in which Stop has been called,
\* whatever the flusher, the permits and the writers are at, Stop returns,
\* WritePoint calls terminating: the final flush gets its permit from a
\* writer that releases one, and wg.Wait() sees the counter at zero.
C26_StopTerminates == Stopping ~> stopPc = "done"

\* C26 witness: Stop waits for the flusher, whose final flush is stalled in
\* the permit acquisition while every permit is with a writer that is inside
\* WritePoint.
C26_Witness ==
    /\ stopPc = "flusher"
    /\ flFinal
    /\ flPc = "acquire"
    /\ semaphoreCh = semaphoreCap
    /\ Cardinality(WritersInWrite) = semaphoreCap
    /\ wg = semaphoreCap + 1

\* ---------------------------------------------- claims on permit accounting
\* C27: in every reachable state the permits held are at least 0 and at most
\* ConcurrentWrites, and are as many as the writers spawned that have not
\* yet given their permit back, plus one when the flush routine has taken a
\* permit and not yet spawned its writer; the WaitGroup counter is at least
\* the number of permits held by writers.
C27_PermitAccounting ==
    LET heldByWriters == Cardinality(WritersHoldingPermit)
        heldByFlush == IF flPc = "spawn" THEN 1 ELSE 0
    IN  /\ semaphoreCap \in 1..MaxConcurrentWrites
        /\ semaphoreCh \in 0..semaphoreCap
        /\ semaphoreCh = heldByWriters + heldByFlush
        /\ wg >= heldByWriters
        /\ wg >= semaphoreCh

\* C27 witness: with two permits, one is with a writer and one with the
\* flush routine about to spawn, while a third writer has given its permit
\* back and not yet run wg.Done: the WaitGroup counts three.
C27_Witness ==
    /\ semaphoreCap = 2
    /\ semaphoreCh = 2
    /\ Cardinality(WritersHoldingPermit) = 1
    /\ flPc = "spawn"
    /\ \E w \in Writers : writers[w].pc = "released"
    /\ wg = 3

\* ------------------------------------------- claims on the join of Stop
\* Stop is in wg.Wait() or past it.
Joining == stopPc \in {"wait", "done"}

\* State part of C28: when Stop is in wg.Wait() or past it, the flush routine
\* is not running and will not run, no Add is pending, and the counter is the
\* number of writers that have not run Done; Stop has returned only with the
\* counter at zero and every writer terminated.
C28_JoinState ==
    /\ Joining =>
          /\ flPc = "stopped"
          /\ flSamples = <<>>
          /\ wg = Cardinality(WritersNotDone)
    /\ stopPc = "done" => wg = 0 /\ WritersNotDone = {}

\* Step part of C28: from the moment Stop is in wg.Wait() the counter is not
\* incremented and no writer is spawned; in particular the counter does not
\* leave zero.
C28_JoinStep ==
    Joining =>
        /\ wg' <= wg
        /\ Len(writers') = Len(writers)
        /\ wg = 0 => wg' = 0

\* C28: no writer is registered after the join starts: every wg.Add(1), of a
\* tick's flush or of the final flush, is run before Stop calls wg.Wait(), so
\* the counter never goes from zero back up while Stop waits and Stop does
\* not return while a writer registered later is pending.
C28_NoAddAfterJoin == []C28_JoinState /\ [][C28_JoinStep]_vars

\* C28 witness: Stop is in wg.Wait() with the client closed and two writers,
\* registered before, that have not terminated.
C28_Witness ==
    /\ stopPc = "wait"
    /\ clientClosed = 1
    /\ wg = 2
    /\ Cardinality(WritersNotDone) = 2
    /\ \E w \in Writers : writers[w].pc = "writing"

\* --------------------------------------------- claims on the input TagSets
\* State part of C29: what a later cycle has built so far is what the
\* earlier cycle built for the same samples: the same tags left, the same
\* tags promoted to the same fields.
C29_SamePointsState ==
    batch.cycle >= 2 =>
        /\ Len(batch.earlier) = Len(BatchSamples)
        /\ \A k \in 1..Len(batch.points) : batch.points[k] = batch.earlier[k]

\* C29: building points never changes its input: no step of batchFromSamples
\* changes the containers, the samples or a TagSet, the promoted keys being
\* deleted from a clone; so a TagSet used again in a later cycle has all its
\* tags and the later cycle builds the points the earlier one built.
C29_InputNotMutated == [][batchIn' = batchIn]_vars /\ []C29_SamePointsState

\* C29 witness: the second cycle has returned the three points of the first;
\* the three samples share one TagSet with a promoted and an unpromoted tag,
\* which the TagSet still holds.
C29_Witness ==
    /\ batch.pc = "returned"
    /\ batch.cycle = MaxCycles
    /\ Len(batch.points) = 3
    /\ batch.points = batch.earlier
    /\ \A k \in 1..Len(BatchSamples) : BatchSamples[k].Tags = 1
    /\ DOMAIN batchIn.fieldKinds = { <<"a">> }
    /\ DOMAIN batchIn.tagSets[1] = BatchTagNames
    /\ DOMAIN batch.points[3].tags = { ValueKey }
    /\ <<"a">> \in DOMAIN batch.points[3].fields
====
